---- MODULE Spec2Model ----
(***************************************************************************)
(* A model of go-bootstrap's service lifecycle (pkg/usecase/bootstrap),   *)
(* its middleware ordering validation (pkg/domain/http) and the chi       *)
(* router's middleware installation (pkg/adapter/http).                   *)
(*                                                                         *)
(* Errors are modelled as the chain of messages that fmt.Errorf("m: %w")  *)
(* builds: the Go nil error is the empty chain, wrapping prepends one     *)
(* message, and "the error text contains m" is membership in the chain.   *)
(***************************************************************************)
EXTENDS Integers, Sequences, FiniteSets, TLC

(***************************************************************************)
(* Bounds of the model.                                                    *)
(***************************************************************************)
MaxStarts == 2      \* Start calls made on the one Service
MaxShutdowns == 1   \* Shutdown calls made on the one Service

(***************************************************************************)
(* Program constants.                                                      *)
(***************************************************************************)
DefaultShutdownTimeout == 15   \* 15 * time.Second
DefaultReadTimeout == 15
DefaultWriteTimeout == 15
DefaultIdleTimeout == 60
DefaultMaxHeaderSize == 1048576 \* 1 << 20
DefaultPort == 8080
VersionTLS12 == 771            \* tls.VersionTLS12

NoDeadline == -1        \* a context without a deadline
NilServer == 0          \* the nil *http.Server
NilTLS == [MinVersion |-> -1, Certificates |-> <<>>]  \* the nil *tls.Config

(***************************************************************************)
(* Errors.                                                                 *)
(***************************************************************************)
Nil == <<>>
ErrServerClosed == <<"http: Server closed">>

\* fmt.Errorf(msg + ": %w", err)
Wrap(msg, err) == <<msg>> \o err

\* strings.Contains(err.Error(), msg), at the granularity of wrapped messages
Contains(err, msg) == \E i \in 1..Len(err) : err[i] = msg

(***************************************************************************)
(* The configuration store: a function from dotted keys to values.         *)
(***************************************************************************)
KPort == "server.http.port"
KRead == "server.http.read_timeout"
KWrite == "server.http.write_timeout"
KIdle == "server.http.idle_timeout"
KHeader == "server.http.max_header_size"
KShutdown == "server.http.shutdown_timeout"
KTLS == "server.tls.enabled"
KCert == "server.tls.cert_file"
KKey == "server.tls.key_file"

Keys == {KPort, KRead, KWrite, KIdle, KHeader, KShutdown, KTLS, KCert, KKey}

\* A stored value, and a key the store does not hold.
Val(v) == [ok |-> TRUE, v |-> v]
Missing(zero) == [ok |-> FALSE, v |-> zero]

\* Store.GetInt / GetDuration / GetBool / GetString: (value, found), the zero
\* value when the key is not found.
Get(st, key) == st[key]

\* The files tls.LoadX509KeyPair can read and parse.
GoodFiles == {"cert.pem", "key.pem"}


\* Service.LoadServerConfig: the port is required, the rest has defaults.
LoadServerConfig(st) ==
    LET port == Get(st, KPort)
        rd == Get(st, KRead)
        wr == Get(st, KWrite)
        idle == Get(st, KIdle)
        sd == Get(st, KShutdown)
        hdr == Get(st, KHeader)
        tlsOn == Get(st, KTLS).v
        cfg == [Port |-> port.v,
                ReadTimeout |-> IF rd.ok THEN rd.v ELSE DefaultReadTimeout,
                WriteTimeout |-> IF wr.ok THEN wr.v ELSE DefaultWriteTimeout,
                IdleTimeout |-> IF idle.ok THEN idle.v ELSE DefaultIdleTimeout,
                ShutdownTimeout |-> IF sd.ok THEN sd.v ELSE DefaultShutdownTimeout,
                MaxHeaderSize |-> IF hdr.ok THEN hdr.v ELSE DefaultMaxHeaderSize,
                TLSEnabled |-> tlsOn,
                TLSCertFile |-> IF tlsOn THEN Get(st, KCert).v ELSE "",
                TLSKeyFile |-> IF tlsOn THEN Get(st, KKey).v ELSE ""]
    IN  IF ~port.ok
        THEN [err |-> <<"server port not configured">>, cfg |-> cfg]
        ELSE [err |-> Nil, cfg |-> cfg]

\* tls.LoadX509KeyPair(certFile, keyFile)
LoadX509KeyPair(cert, key) ==
    IF cert \in GoodFiles /\ key \in GoodFiles
    THEN [err |-> Nil, cert |-> <<cert, key>>]
    ELSE [err |-> <<"open: no such file or directory">>, cert |-> <<>>]

\* Service.configureTLS(server, cfg)
configureTLS(server, cfg) ==
    IF ~cfg.TLSEnabled THEN [err |-> Nil, server |-> server]
    ELSE
      LET useFiles == cfg.TLSCertFile # "" /\ cfg.TLSKeyFile # ""
          pair == LoadX509KeyPair(cfg.TLSCertFile, cfg.TLSKeyFile)
          base == IF server.TLSConfig = NilTLS
                  THEN [MinVersion |-> 0, Certificates |-> <<>>]
                  ELSE server.TLSConfig
          withCert == IF useFiles
                      THEN [base EXCEPT !.Certificates = <<pair.cert>>]
                      ELSE base
          final == IF withCert.MinVersion = 0
                   THEN [withCert EXCEPT !.MinVersion = VersionTLS12]
                   ELSE withCert
      IN  IF useFiles /\ pair.err # Nil
          THEN [err |-> Wrap("loading TLS cert/key", pair.err), server |-> server]
          ELSE [err |-> Nil, server |-> [server EXCEPT !.TLSConfig = final]]

\* createServer with the PreStart hook run before TLS is applied, and its
\* error dropped.
createServerHookFirst(cfg, preStartSet, pre) ==
    LET server == [Addr |-> cfg.Port,
                   ReadTimeout |-> cfg.ReadTimeout,
                   WriteTimeout |-> cfg.WriteTimeout,
                   IdleTimeout |-> cfg.IdleTimeout,
                   MaxHeaderBytes |-> cfg.MaxHeaderSize,
                   TLSConfig |-> NilTLS,
                   inShutdown |-> FALSE,
                   listening |-> FALSE,
                   mode |-> "none"]
        t == configureTLS(server, cfg)
        steps == IF preStartSet THEN <<"build", "prestart", "tls">>
                 ELSE <<"build", "tls">>
    IN  IF t.err # Nil
        THEN [err |-> Wrap("configuring TLS", t.err), server |-> server,
              steps |-> steps]
        ELSE [err |-> Nil, server |-> t.server, steps |-> steps]

\* What a PreStart hook does to the *http.Server it is handed: nothing, or it
\* sets TLSConfig to nil, or to a new &tls.Config{}.
PreStartEdit(server, edit) ==
    CASE edit = "none" -> server
      [] edit = "nil" -> [server EXCEPT !.TLSConfig = NilTLS]
      [] edit = "bare" -> [server EXCEPT !.TLSConfig =
                               [MinVersion |-> 0, Certificates |-> <<>>]]

\* Service.createServer(cfg): build the listener configuration, apply TLS, run
\* the optional PreStart hook.  preStartSet says whether opts.Server.PreStart
\* is non-nil and pre is what the hook does when it is called: the error it
\* returns and its edit of the server.  steps lists the stages that ran, in
\* order.
createServer(cfg, preStartSet, pre) ==
    LET server == [Addr |-> cfg.Port,
                   ReadTimeout |-> cfg.ReadTimeout,
                   WriteTimeout |-> cfg.WriteTimeout,
                   IdleTimeout |-> cfg.IdleTimeout,
                   MaxHeaderBytes |-> cfg.MaxHeaderSize,
                   TLSConfig |-> NilTLS,
                   inShutdown |-> FALSE,
                   listening |-> FALSE,
                   mode |-> "none"]
        t == configureTLS(server, cfg)
    IN  IF t.err # Nil
        THEN [err |-> Wrap("configuring TLS", t.err), server |-> server,
              steps |-> <<"build", "tls">>]
        ELSE IF preStartSet
        THEN IF pre.err # Nil
             THEN [err |-> Wrap("pre-start hook", pre.err), server |-> t.server,
                   steps |-> <<"build", "tls", "prestart">>]
             ELSE [err |-> Nil, server |-> PreStartEdit(t.server, pre.edit),
                   steps |-> <<"build", "tls", "prestart">>]
        ELSE [err |-> Nil, server |-> t.server, steps |-> <<"build", "tls">>]

\* A timeout context that forgets its parent's deadline.
WithTimeoutOwn(parent, t, timeout) == t + timeout

\* context.WithTimeout(parent, timeout) at time t: the earlier deadline wins.
WithTimeout(parent, t, timeout) ==
    LET d == t + timeout
    IN  IF parent # NoDeadline /\ parent < d THEN parent ELSE d


(***************************************************************************)
(* The state of one Service and of the calls made on it.                   *)
(***************************************************************************)
VARIABLES
    store,      \* Service.config: the live configuration store
    hooks,      \* Service.hooks: [set, ListenAndServe, Shutdown] (non-nil flags)
    tracer,     \* Service.tracer # nil
    preStart,   \* Service.opts.Server.PreStart # nil
    server,     \* Service.server: NilServer or an index into servers
    servers,    \* the http.Server objects created so far
    starts,     \* the Start calls made so far, each on its own thread
    sd,         \* the Shutdown call in progress, or the last one
    sdCalls,    \* Shutdown calls made so far
    ns,         \* a NewService call: its options, its progress, its result
    rt,         \* a Factory.NewRouter call: its options, its progress, its result
    mt,         \* a Matches call: its arguments and its result
    ob,         \* a router built with exclusion lists and the request it serves
    mk          \* a configuration store, a mask strategy and the masked views taken

lifeVars == <<store, hooks, tracer, preStart, server, servers,
              starts, sd, sdCalls>>

\* What the stores, hooks and options of the model range over.
Ports == {8080}
Timeouts == {5}
CallTimes == {0, 1}                     \* when Shutdown is called, in seconds
ParentDeadlines == {NoDeadline, 10}     \* context.Background(), or 10s from the call
NoHooks == [set |-> FALSE, ListenAndServe |-> FALSE, Shutdown |-> FALSE]
TestHooks == [set |-> TRUE, ListenAndServe |-> TRUE, Shutdown |-> TRUE]
HookServeResults == {ErrServerClosed, <<"listen failed">>}
TransportResults == {Nil, <<"context deadline exceeded">>}
TracerResults == {Nil, <<"exporter unavailable">>}
\* PreStart hooks: those that accept or refuse the server and leave it as it
\* is, and those that also edit its TLS configuration.
PreStartHooks == [err : {Nil, <<"hook refused">>}, edit : {"none", "nil", "bare"}]
PreStartResults == { h \in PreStartHooks : h.edit = "none" }

\* Service.initConfig, lines 17-26: the defaults handed to the store factory.
\* The shutdown timeout is not among them.
ConfigDefaults(srv) ==
    [k \in Keys |->
        CASE k = KPort -> Val(srv.Port)
          [] k = KRead -> Val(srv.ReadTimeout)
          [] k = KWrite -> Val(srv.WriteTimeout)
          [] k = KIdle -> Val(srv.IdleTimeout)
          [] k = KHeader -> Val(srv.MaxHeaderSize)
          [] k = KShutdown -> Missing(0)
          [] k = KTLS -> Val(srv.TLSConfig # NilTLS)
          [] k = KCert -> Val(srv.TLSCertFile)
          [] k = KKey -> Val(srv.TLSKeyFile)]

\* The store a successful NewService leaves when the factory's store keeps
\* the defaults and no file or environment variable overrides them.
NewStore(tls) ==
    ConfigDefaults([Port |-> DefaultPort, ReadTimeout |-> DefaultReadTimeout,
                    WriteTimeout |-> DefaultWriteTimeout,
                    IdleTimeout |-> DefaultIdleTimeout,
                    ShutdownTimeout |-> DefaultShutdownTimeout,
                    MaxHeaderSize |-> DefaultMaxHeaderSize,
                    TLSConfig |-> IF tls[1]
                                  THEN [MinVersion |-> 0, Certificates |-> <<>>]
                                  ELSE NilTLS,
                    TLSCertFile |-> tls[2], TLSKeyFile |-> tls[3],
                    PreStart |-> FALSE])

\* The services the model starts from: [store, hooks, tracer, preStart].
\* ShutdownServices vary what Shutdown depends on, StartServices what Start
\* depends on.
NoTLSSetting == <<FALSE, "", "">>
TLSSettings ==
    { NoTLSSetting, <<TRUE, "cert.pem", "key.pem">>,
      <<TRUE, "missing.pem", "key.pem">>, <<TRUE, "", "">> }
ShutdownServices ==
    { [store |-> NewStore(NoTLSSetting), hooks |-> h, tracer |-> tr,
       preStart |-> FALSE] : h \in {NoHooks, TestHooks}, tr \in BOOLEAN }
StartServices ==
    { [store |-> NewStore(tls), hooks |-> NoHooks, tracer |-> FALSE,
       preStart |-> pre] : tls \in TLSSettings, pre \in BOOLEAN }
    \cup
    { [store |-> NewStore(NoTLSSetting), hooks |-> TestHooks, tracer |-> FALSE,
       preStart |-> TRUE] }

\* No Shutdown call made yet.
NoShutdown ==
    [pc |-> "idle", at |-> 0,
     ctx |-> NoDeadline, target |-> NilServer, viaHook |-> FALSE, trace |-> <<>>,
     logs |-> <<>>, transportErr |-> Nil, tracerErr |-> Nil, result |-> Nil]

\* The state after a successful NewService of one of the services S.
LifeInit(S) ==
    /\ \E svc \in S :
          /\ store = svc.store
          /\ hooks = svc.hooks
          /\ tracer = svc.tracer
          /\ preStart = svc.preStart
    /\ server = NilServer
    /\ servers = <<>>
    /\ starts = <<>>
    /\ sd = NoShutdown
    /\ sdCalls = 0

(***************************************************************************)
(* Service.Start.  Loading the configuration and creating the server touch *)
(* shared state once each (the store is read, s.server is written), so     *)
(* they make one action; serving is a second, its return a third.          *)
(***************************************************************************)

\* Where the service stands in its lifecycle: Stopped once a Shutdown has
\* returned nil, Running while a Start call is serving, Initialized otherwise.
LifeState ==
    IF sd.pc = "done" /\ sd.result = Nil THEN "Stopped"
    ELSE IF \E i \in 1..Len(starts) : starts[i].pc = "serving" THEN "Running"
    ELSE "Initialized"

\* Start, lines 236-245, on a new thread: load the configuration, create the
\* server, store it in s.server.  pre is what PreStart does if called.
\* The call remembers in afterStop whether it was made on a Stopped service.
StartBegin(pre) ==
    /\ Len(starts) < MaxStarts
    /\ pre \in PreStartHooks
    /\ LET l == LoadServerConfig(store)
           c == createServer(l.cfg, preStart, pre)
           id == Len(servers) + 1
           call == [pc |-> "serve", use |-> NilServer, afterStop |-> LifeState = "Stopped",
                    tls |-> l.cfg.TLSEnabled /\ l.cfg.TLSCertFile # ""
                              /\ l.cfg.TLSKeyFile # "",
                    steps |-> <<"load">>, result |-> Nil]
       IN  IF l.err # Nil
           THEN /\ starts' = Append(starts,
                      [call EXCEPT !.pc = "done",
                                   !.result = Wrap("loading server config", l.err)])
                /\ UNCHANGED <<server, servers>>
           ELSE IF c.err # Nil
           THEN /\ starts' = Append(starts,
                      [call EXCEPT !.pc = "done", !.steps = @ \o c.steps,
                                   !.result = Wrap("creating server", c.err)])
                /\ UNCHANGED <<server, servers>>
           ELSE /\ servers' = Append(servers, c.server)
                /\ server' = id
                /\ starts' = Append(starts,
                      [call EXCEPT !.steps = @ \o c.steps])
    /\ UNCHANGED <<store, hooks, tracer, preStart, sd, sdCalls, ns, rt, mt, ob, mk>>

\* net.Listen on the server's address fails while another listener holds it.
AddrInUse(v) ==
    \E j \in 1..Len(servers) : servers[j].listening /\ servers[j].Addr = servers[v].Addr

\* Start, lines 255-282: serve over TLS when it is enabled and both files are
\* named (tls), through the hook when one is set, otherwise by
\* s.server.ListenAndServe[TLS]() on the server s.server holds at that moment
\* (v): the one this call stored, or the one a later Start stored over it.
StartServe(i, v) ==
    /\ i \in 1..Len(starts)
    /\ starts[i].pc = "serve"
    /\ v = server
    /\ LET useTLS == starts[i].tls
           entered == [starts EXCEPT ![i].steps = Append(@, "serve"), ![i].use = v]
       IN  IF hooks.set /\ hooks.ListenAndServe
           THEN /\ starts' = [entered EXCEPT ![i].pc = "serving"]
                /\ UNCHANGED servers
           ELSE IF servers[v].inShutdown
           THEN \* ListenAndServe on a server that was shut down: ErrServerClosed
                /\ starts' = [entered EXCEPT ![i].pc = "done", ![i].use = NilServer,
                                             ![i].result = Nil]
                /\ UNCHANGED servers
           ELSE IF AddrInUse(v)
           THEN /\ starts' = [entered EXCEPT ![i].pc = "done", ![i].use = NilServer,
                      ![i].result = Wrap("server error", <<"bind: address already in use">>)]
                /\ UNCHANGED servers
           ELSE /\ servers' = [servers EXCEPT ![v].listening = TRUE,
                                 ![v].mode = IF useTLS THEN "tls" ELSE "plain"]
                /\ starts' = [entered EXCEPT ![i].pc = "serving"]
    /\ UNCHANGED <<store, hooks, tracer, preStart, server, sd, sdCalls, ns, rt, mt, ob, mk>>

\* Start, lines 263-284: the serve call returns.  A hook returns what it likes;
\* the real listener returns ErrServerClosed once it has been closed.  A call
\* that has returned holds no server any more.
StartReturn(i, r) ==
    /\ i \in 1..Len(starts)
    /\ starts[i].pc = "serving"
    /\ IF hooks.set /\ hooks.ListenAndServe
       THEN r \in HookServeResults
       ELSE r = ErrServerClosed /\ ~servers[starts[i].use].listening
    /\ starts' = [starts EXCEPT ![i].pc = "done", ![i].use = NilServer,
                                ![i].result = IF r = ErrServerClosed THEN Nil
                                              ELSE Wrap("server error", r)]
    /\ UNCHANGED <<store, hooks, tracer, preStart, server, servers, sd, sdCalls, ns, rt, mt, ob, mk>>


(***************************************************************************)
(* Service.Shutdown.  Calls are made one after the other: sd is the call   *)
(* in progress or, between calls, the one that ended last.                 *)
(***************************************************************************)

\* Shutdown, lines 289-299: log, reload the configuration, derive the context.
\* now is the time of the call, no earlier than that of the call before; d is
\* the caller's context: no deadline, or a deadline d seconds from now.
ShutdownBegin(now, d) ==
    /\ sd.pc \in {"idle", "done"}
    /\ sdCalls < MaxShutdowns
    /\ now \in CallTimes
    /\ now >= sd.at
    /\ sdCalls' = sdCalls + 1
    /\ LET parent == IF d = NoDeadline THEN NoDeadline ELSE now + d
           l == LoadServerConfig(store)
           call == [NoShutdown EXCEPT !.pc = "transport", !.at = now,
                                      !.logs = <<"Starting graceful shutdown">>]
       IN  sd' = IF l.err # Nil
                 THEN [call EXCEPT !.pc = "done",
                                   !.result = Wrap("loading shutdown config", l.err)]
                 ELSE [call EXCEPT
                          !.ctx = WithTimeout(parent, now, l.cfg.ShutdownTimeout)]
    /\ UNCHANGED <<store, hooks, tracer, preStart, server, servers, starts, ns, rt, mt, ob, mk>>

\* A Shutdown that notes the transport's failure and goes on to the tracer.
afterTransportGoOn(call, r) ==
    [call EXCEPT !.pc = "tracer", !.transportErr = r]

\* Shutdown, lines 307-312: a transport failure is logged and returned wrapped,
\* otherwise the call goes on to the tracer.  r is what the transport returned.
afterTransport(call, r) ==
    IF r # Nil
    THEN [call EXCEPT !.pc = "done", !.transportErr = r,
                      !.logs = Append(@, "Shutdown error"),
                      !.result = Wrap("server shutdown", r)]
    ELSE [call EXCEPT !.pc = "tracer"]

\* A Shutdown that asks the tracer, notes its failure and reports completion.
afterTracerQuiet(call, tracerSet, r) ==
    LET asked == [call EXCEPT !.trace = Append(@, [op |-> "tracer", ctx |-> call.ctx])]
    IN  IF tracerSet
        THEN [asked EXCEPT !.pc = "done", !.tracerErr = r,
                           !.logs = Append(@, "Server stopped")]
        ELSE [call EXCEPT !.pc = "done", !.logs = Append(@, "Server stopped")]

\* Shutdown, lines 314-325: s.tracer.Shutdown(ctx) when a tracer is set
\* (tracerSet), its failure logged and returned wrapped; otherwise the
\* completion message and nil.  r is what the tracer answers if asked.
afterTracer(call, tracerSet, r) ==
    LET asked == [call EXCEPT !.trace = Append(@, [op |-> "tracer", ctx |-> call.ctx])]
    IN  IF tracerSet
        THEN IF r # Nil
             THEN [asked EXCEPT !.pc = "done", !.tracerErr = r,
                                !.logs = Append(@, "Tracer shutdown error"),
                                !.result = Wrap("tracer shutdown", r)]
             ELSE [asked EXCEPT !.pc = "done",
                                !.logs = Append(@, "Server stopped")]
        ELSE [call EXCEPT !.pc = "done", !.logs = Append(@, "Server stopped")]

\* Shutdown, lines 302-312: shutdown := s.server.Shutdown, replaced by the hook
\* when one is set; shutdown(ctx).  v is what the read of s.server returns:
\* the read is not ordered with the write in Start, so it sees nil until that
\* write has happened and the stored server afterwards.  r is what the
\* transport answers.
ShutdownTransport(v, r) ==
    /\ sd.pc = "transport"
    /\ v = server
    /\ r \in TransportResults
    /\ LET called == [sd EXCEPT !.target = v,
                                !.viaHook = hooks.set /\ hooks.Shutdown,
                                !.trace = Append(@, [op |-> "transport", ctx |-> sd.ctx])]
       IN  IF hooks.set /\ hooks.Shutdown
           THEN /\ sd' = afterTransport(called, r)
                /\ UNCHANGED servers
           ELSE IF v = NilServer
           THEN \* (*http.Server)(nil).Shutdown: nil pointer dereference
                /\ r = Nil
                /\ sd' = [called EXCEPT !.pc = "panicked",
                             !.transportErr = <<"panic: nil pointer dereference">>]
                /\ UNCHANGED servers
           ELSE \* http.Server.Shutdown closes the listeners, then waits for the
                \* connections to drain or for the context to end
                /\ servers' = [servers EXCEPT ![v].inShutdown = TRUE,
                                              ![v].listening = FALSE]
                /\ sd' = afterTransport(called, r)
    /\ UNCHANGED <<store, hooks, tracer, preStart, server, starts, sdCalls, ns, rt, mt, ob, mk>>

\* Shutdown, lines 314-325, once the transport has returned nil.
ShutdownTracer(r) ==
    /\ sd.pc = "tracer"
    /\ r \in TracerResults
    /\ sd' = afterTracer(sd, tracer, r)
    /\ UNCHANGED <<store, hooks, tracer, preStart, server, servers, starts, sdCalls, ns, rt, mt, ob, mk>>

(***************************************************************************)
(* The environment: live edits of the store.                               *)
(***************************************************************************)

\* The content of the store changes: Store.Set(key, value) by the application,
\* a configuration reload, or a store implementation that reports no value
\* for the key (as the mock store of the lifecycle tests does for the port).
\* Only Start and Shutdown read the store, each once, when the call begins:
\* changes that no further call of the run can read are left out.
SetConfig(key, val) ==
    /\ Len(starts) < MaxStarts \/ sdCalls < MaxShutdowns
    /\ key \in {KPort, KShutdown}
    /\ val \in IF key = KPort THEN {Val(p) : p \in Ports} \cup {Missing(0)}
               ELSE {Val(x) : x \in Timeouts} \cup {Missing(0)}
    /\ store[key] # val
    /\ store' = [store EXCEPT ![key] = val]
    /\ UNCHANGED <<hooks, tracer, preStart, server, servers, starts, sd, sdCalls, ns, rt, mt, ob, mk>>

(***************************************************************************)
(* NewService: option validation, then the collaborators, one factory call *)
(* after the other.                                                        *)
(***************************************************************************)

\* What the factories answer.
FactoryResults == {Nil, <<"factory failed">>}

\* The sampling rates a caller writes, in percent; Unset when the Options
\* literal leaves the field out, which gives the field its zero value.
Unset == -1
SampleRates == {Unset, 0, 50, 100}
RateField(rate) == IF rate = Unset THEN 0 ELSE rate

\* A tls.Config the application builds: TLS 1.3 at least (tls.VersionTLS13).
CustomTLS == [MinVersion |-> 772, Certificates |-> <<>>]

\* ServerOptions with nothing but the port written.
PortOnly(port) ==
    [Port |-> port, ReadTimeout |-> 0, WriteTimeout |-> 0,
     IdleTimeout |-> 0, ShutdownTimeout |-> 0, MaxHeaderSize |-> 0,
     TLSConfig |-> NilTLS, TLSCertFile |-> "", TLSKeyFile |-> "",
     PreStart |-> FALSE]

\* The options NewService is given: unset fields hold their zero value.
\* TracingSampleRate is in percent.
NewOptions ==
    { [ServiceName |-> name, Version |-> ver, EnvPrefix |-> "", LogLevel |-> "",
       Server |-> PortOnly(port),
       TracingEndpoint |-> ep, TracingSampleRate |-> 0,
       EnableLogConfig |-> lc, EnableConfigViewer |-> cv] :
         name \in {"", "svc"}, ver \in {"", "1.0"}, port \in {0, 9090},
         ep \in {"", "otel:4317"}, lc \in BOOLEAN, cv \in BOOLEAN }

\* Options that say how the server is to run: the shutdown timeout, the TLS
\* configuration with or without certificate files, a PreStart hook.
ServiceOptions ==
    { [ServiceName |-> "svc", Version |-> "1.0", EnvPrefix |-> "", LogLevel |-> "",
       Server |-> [PortOnly(0) EXCEPT !.ShutdownTimeout = t, !.TLSConfig = c,
                                      !.TLSCertFile = f[1], !.TLSKeyFile = f[2],
                                      !.PreStart = pre],
       TracingEndpoint |-> "", TracingSampleRate |-> 0,
       EnableLogConfig |-> FALSE, EnableConfigViewer |-> FALSE] :
         t \in {0} \cup Timeouts, c \in {NilTLS, CustomTLS},
         f \in {<<"", "">>, <<"cert.pem", "key.pem">>}, pre \in BOOLEAN }

\* What the products of the factories implement: the logger
\* RuntimeConfigurable, the store MaskedStore.
NewDeps == [configurable : BOOLEAN, masked : BOOLEAN]

\* validateOptions: the service name is required, zero values get defaults.
validateOptions(opts) ==
    IF opts.ServiceName = ""
    THEN [err |-> <<"service name is required">>, opts |-> opts]
    ELSE [err |-> Nil,
          opts |-> [opts EXCEPT
              !.Version = IF @ = "" THEN "dev" ELSE @,
              !.EnvPrefix = IF @ = "" THEN opts.ServiceName ELSE @,
              !.LogLevel = IF @ = "" THEN "info" ELSE @,
              !.Server.ShutdownTimeout = IF @ = 0 THEN DefaultShutdownTimeout ELSE @,
              !.Server.ReadTimeout = IF @ = 0 THEN DefaultReadTimeout ELSE @,
              !.Server.WriteTimeout = IF @ = 0 THEN DefaultWriteTimeout ELSE @,
              !.Server.IdleTimeout = IF @ = 0 THEN DefaultIdleTimeout ELSE @,
              !.Server.MaxHeaderSize = IF @ = 0 THEN DefaultMaxHeaderSize ELSE @,
              !.Server.Port = IF @ = 0 THEN DefaultPort ELSE @,
              !.TracingSampleRate = IF @ = 0 THEN 100 ELSE @]]

\* A nil MaskStrategy, and the default one GetMaskedConfig and
\* Service.initRouter use: password, secret, key, token, credential.
NilStrategy == [set |-> FALSE, SensitiveKeys |-> <<>>, MaskPattern |-> ""]
DefaultMaskStrategy ==
    [set |-> TRUE,
     SensitiveKeys |-> << <<"p", "a", "s", "s", "w", "o", "r", "d">>,
                          <<"s", "e", "c", "r", "e", "t">>,
                          <<"k", "e", "y">>,
                          <<"t", "o", "k", "e", "n">>,
                          <<"c", "r", "e", "d", "e", "n", "t", "i", "a", "l">> >>,
     MaskPattern |-> "******"]

\* What router.Mount is given: the path, and the handler with the method that
\* made it and the strategy that method was passed.
Mounted(path, from, strategy) ==
    [path |-> path, handler |-> [from |-> from, strategy |-> strategy]]

\* The Service under construction: which collaborators are non-nil.
NoCollaborators ==
    [config |-> FALSE, logger |-> FALSE, tracer |-> FALSE, router |-> FALSE]

\* No NewService call.
NoNewService ==
    [pc |-> "none", given |-> {}, opts |-> {}, deps |-> {}, calls |-> <<>>,
     svc |-> NoCollaborators, sampling |-> Unset, mounts |-> <<>>,
     ret |-> [svc |-> FALSE, err |-> Nil]]

\* return nil, err
NewFailed(call, err) ==
    [call EXCEPT !.pc = "done", !.ret = [svc |-> FALSE, err |-> err]]

\* NewService, lines 131-140: validate the options, allocate the Service.
NewServiceValidate ==
    /\ ns.pc = "validate"
    /\ LET v == validateOptions(ns.opts)
       IN  /\ ns' = IF v.err # Nil
                    THEN NewFailed(ns, Wrap("invalid options", v.err))
                    ELSE [ns EXCEPT !.pc = "config", !.opts = v.opts]
          /\ preStart' = IF v.err # Nil THEN preStart ELSE v.opts.Server.PreStart
    /\ UNCHANGED <<store, hooks, tracer, server, servers, starts, sd, sdCalls,
                   rt, mt, ob, mk>>

\* Service.initConfig: r is what ConfigFactory.NewStore answers; the store
\* it makes holds the defaults it is handed.
initConfig(r) ==
    /\ ns.pc = "config"
    /\ r \in FactoryResults
    /\ LET called == [ns EXCEPT !.calls = Append(@, "ConfigFactory.NewStore")]
       IN  /\ ns' = IF r # Nil
                    THEN NewFailed(called, Wrap("creating config store", r))
                    ELSE [called EXCEPT !.pc = "logger", !.svc.config = TRUE]
           /\ store' = IF r # Nil THEN store ELSE ConfigDefaults(ns.opts.Server)
    /\ UNCHANGED <<hooks, tracer, preStart, server, servers, starts, sd, sdCalls,
                   rt, mt, ob, mk>>

\* Service.initLogger: r is what LoggerFactory.NewLogger answers.
initLogger(r) ==
    /\ ns.pc = "logger"
    /\ r \in FactoryResults
    /\ LET called == [ns EXCEPT !.calls = Append(@, "LoggerFactory.NewLogger")]
       IN  ns' = IF r # Nil
                 THEN NewFailed(called, Wrap("creating logger", r))
                 ELSE [called EXCEPT !.pc = "tracing", !.svc.logger = TRUE]
    /\ UNCHANGED <<lifeVars, rt, mt, ob, mk>>

\* An initTracing that asks the tracer factory whatever the endpoint is.
initTracingAlways(r) ==
    /\ ns.pc = "tracing"
    /\ r \in FactoryResults
    /\ LET called == [ns EXCEPT !.calls = Append(@, "TracerFactory.NewProvider")]
       IN  /\ ns' = IF r # Nil
                    THEN NewFailed(called, Wrap("creating tracer", r))
                    ELSE [called EXCEPT !.pc = "router", !.svc.tracer = TRUE,
                                        !.sampling = ns.opts.TracingSampleRate]
           /\ tracer' = (r = Nil)
    /\ UNCHANGED <<store, hooks, preStart, server, servers, starts, sd, sdCalls,
                   rt, mt, ob, mk>>

\* Service.initTracing: nothing without a tracing endpoint; otherwise r is what
\* TracerFactory.NewProvider answers, asked with WithSamplingRate of the
\* options' rate.
initTracing(r) ==
    /\ ns.pc = "tracing"
    /\ r \in FactoryResults
    /\ LET called == [ns EXCEPT !.calls = Append(@, "TracerFactory.NewProvider")]
       IN  /\ ns' = IF ns.opts.TracingEndpoint = ""
                    THEN [ns EXCEPT !.pc = "router"]
                    ELSE IF r # Nil
                    THEN NewFailed(called, Wrap("creating tracer", r))
                    ELSE [called EXCEPT !.pc = "router", !.svc.tracer = TRUE,
                                        !.sampling = ns.opts.TracingSampleRate]
           /\ tracer' = (ns.opts.TracingEndpoint # "" /\ r = Nil)
    /\ UNCHANGED <<store, hooks, preStart, server, servers, starts, sd, sdCalls,
                   rt, mt, ob, mk>>

\* An initRouter that mounts the viewer whatever the store implements.
initRouterAnyStore(r) ==
    /\ ns.pc = "router"
    /\ r \in FactoryResults
    /\ LET called == [ns EXCEPT !.calls = Append(@, "RouterFactory.NewRouter")]
           logging == IF ns.opts.EnableLogConfig /\ ns.deps.configurable
                      THEN <<Mounted("/internal/logging",
                                     "RuntimeConfigurable.GetConfigHandler",
                                     NilStrategy)>>
                      ELSE <<>>
           viewer == IF ns.opts.EnableConfigViewer
                     THEN <<Mounted("/internal/config",
                                    "MaskedStore.GetConfigHandler",
                                    DefaultMaskStrategy)>>
                     ELSE <<>>
       IN  ns' = IF r # Nil
                 THEN NewFailed(called, Wrap("creating router", r))
                 ELSE [called EXCEPT !.pc = "done", !.svc.router = TRUE,
                                     !.mounts = logging \o viewer,
                                     !.ret = [svc |-> TRUE, err |-> Nil]]
    /\ UNCHANGED <<lifeVars, rt, mt, ob, mk>>

\* Service.initRouter: r is what RouterFactory.NewRouter answers; the logging
\* and configuration endpoints are mounted when enabled and supported.  Then
\* NewService returns the service.
initRouter(r) ==
    /\ ns.pc = "router"
    /\ r \in FactoryResults
    /\ LET called == [ns EXCEPT !.calls = Append(@, "RouterFactory.NewRouter")]
           logging == IF ns.opts.EnableLogConfig /\ ns.deps.configurable
                      THEN <<Mounted("/internal/logging",
                                     "RuntimeConfigurable.GetConfigHandler",
                                     NilStrategy)>>
                      ELSE <<>>
           viewer == IF ns.opts.EnableConfigViewer /\ ns.deps.masked
                     THEN <<Mounted("/internal/config",
                                    "MaskedStore.GetConfigHandler",
                                    DefaultMaskStrategy)>>
                     ELSE <<>>
       IN  ns' = IF r # Nil
                 THEN NewFailed(called, Wrap("creating router", r))
                 ELSE [called EXCEPT !.pc = "done", !.svc.router = TRUE,
                                     !.mounts = logging \o viewer,
                                     !.ret = [svc |-> TRUE, err |-> Nil]]
    /\ UNCHANGED <<lifeVars, rt, mt, ob, mk>>

(***************************************************************************)
(* The router: middleware ordering validation (pkg/domain/http) and the    *)
(* chi router's construction (pkg/adapter/http).                           *)
(***************************************************************************)
MaxOrderLen == 4    \* longest middleware Order supplied

CoreMiddleware == "core"
SecurityMiddleware == "security"
ApplicationMiddleware == "application"
ObservabilityMiddleware == "observability"

requiredCategories == {CoreMiddleware, SecurityMiddleware, ObservabilityMiddleware}

\* MiddlewareCategory is a string type: the four constants, and any other
\* string a caller converts.
Categories ==
    {CoreMiddleware, SecurityMiddleware, ApplicationMiddleware,
     ObservabilityMiddleware, "audit"}

\* validateMiddlewareOrdering, lines 212-217: the first category met a second
\* time, or seen, the set of the categories of order[i..].
RECURSIVE seenLoop(_, _, _)
seenLoop(order, i, seen) ==
    IF i > Len(order) THEN [dup |-> "", seen |-> seen]
    ELSE IF order[i] \in seen THEN [dup |-> order[i], seen |-> seen]
    ELSE seenLoop(order, i + 1, seen \cup {order[i]})

\* validateMiddlewareOrdering without the duplicate check.
validateRequiredOnly(order) ==
    IF Len(order) = 0 THEN <<"middleware order cannot be empty">>
    ELSE IF \E c \in requiredCategories : \A i \in 1..Len(order) : order[i] # c
    THEN <<"missing required middleware categories">>
    ELSE Nil

\* validateMiddlewareOrdering(order): the error it returns (the missing
\* categories are joined in map order, which the message leaves out here).
validateMiddlewareOrdering(order) ==
    IF Len(order) = 0 THEN <<"middleware order cannot be empty">>
    ELSE LET l == seenLoop(order, 1, {})
             missing == {c \in requiredCategories : c \notin l.seen}
         IN  IF l.dup # "" THEN <<"duplicate middleware category", l.dup>>
             ELSE IF missing # {} THEN <<"missing required middleware categories">>
             ELSE Nil

\* A nil *MiddlewareOrdering.  CustomMiddleware is the set of the map's
\* entries <<category, middleware names>>.
NoOrdering == [set |-> FALSE, Order |-> <<>>, CustomMiddleware |-> {}]

\* WithMiddlewareOrdering without the check of the custom middleware's
\* categories.
WithOrderingAnyCustom(ordering, o) ==
    IF ~ordering.set
    THEN [err |-> <<"middleware ordering cannot be nil">>, opts |-> o]
    ELSE LET v == validateMiddlewareOrdering(ordering.Order)
         IN  IF v # Nil
             THEN [err |-> Wrap("invalid middleware ordering", v), opts |-> o]
             ELSE [err |-> Nil, opts |-> [o EXCEPT !.MiddlewareOrdering = ordering]]

\* WithMiddlewareOrdering(ordering) applied to the options o: the error and
\* the options afterwards.
WithMiddlewareOrdering(ordering, o) ==
    IF ~ordering.set
    THEN [err |-> <<"middleware ordering cannot be nil">>, opts |-> o]
    ELSE LET v == validateMiddlewareOrdering(ordering.Order)
             foreign == {e \in ordering.CustomMiddleware :
                            e[1] \notin requiredCategories
                            /\ e[1] # ApplicationMiddleware}
         IN  IF v # Nil
             THEN [err |-> Wrap("invalid middleware ordering", v), opts |-> o]
             ELSE IF foreign # {}
             THEN [err |-> <<"invalid middleware category for custom middleware">>,
                   opts |-> o]
             ELSE [err |-> Nil, opts |-> [o EXCEPT !.MiddlewareOrdering = ordering]]

\* The orderings, custom middleware and collaborators a router is built with.
Orders == UNION { [1..n -> Categories] : n \in 0..MaxOrderLen }
Customs ==
    { {}, {<<SecurityMiddleware, <<"auth", "cors">>>>},
      {<<"audit", <<"trail">>>>} }
\* orderingOption: WithMiddlewareOrdering is among the options, which
\* Service.initRouter passes for a non-nil ordering only and another caller
\* may pass with a nil one.
RouterInputs ==
    { [ordering |-> NoOrdering, orderingOption |-> FALSE,
       logger |-> lg, tracing |-> tr, metrics |-> m] :
         lg \in BOOLEAN, tr \in BOOLEAN, m \in BOOLEAN }
    \cup
    { [ordering |-> NoOrdering, orderingOption |-> TRUE,
       logger |-> TRUE, tracing |-> tr, metrics |-> TRUE] : tr \in BOOLEAN }
    \cup
    { [ordering |-> [set |-> TRUE, Order |-> ord, CustomMiddleware |-> cm],
       orderingOption |-> TRUE,
       logger |-> TRUE, tracing |-> tr, metrics |-> TRUE] :
         ord \in Orders, cm \in Customs, tr \in BOOLEAN }

\* No Factory.NewRouter call.
NoRouter ==
    [pc |-> "none", in |-> {},
     opts |-> [MiddlewareOrdering |-> NoOrdering, Logger |-> FALSE,
               TracingProvider |-> FALSE, middleware |-> <<>>],
     metrics |-> FALSE, err |-> Nil]

\* Factory.NewRouter, lines 44-83, as Service.initRouter calls it: the options
\* are applied, the ordering option when it is among them; an option's error
\* ends the construction.
NewRouter ==
    /\ rt.pc = "options"
    /\ LET base == [rt.opts EXCEPT !.Logger = rt.in.logger,
                                   !.TracingProvider = rt.in.tracing]
           w == IF rt.in.orderingOption
                THEN WithMiddlewareOrdering(rt.in.ordering, base)
                ELSE [err |-> Nil, opts |-> base]
       IN  rt' = IF w.err # Nil
                 THEN [rt EXCEPT !.pc = "done",
                                 !.err = Wrap("applying router option", w.err)]
                 ELSE [rt EXCEPT !.pc = "middleware", !.opts = w.opts,
                                 !.metrics = rt.in.metrics]
    /\ UNCHANGED <<lifeVars, ns, mt, ob, mk>>

\* Router.configureMiddleware: the base middleware, then tracing, logging and
\* metrics when configured, installed in that order.
configureMiddleware ==
    /\ rt.pc = "middleware"
    /\ LET chain == <<"RequestID", "RealIP", "Recoverer", "Timeout">>
                    \o (IF rt.opts.TracingProvider THEN <<"tracing">> ELSE <<>>)
                    \o (IF rt.opts.Logger THEN <<"logging">> ELSE <<>>)
                    \o (IF rt.metrics THEN <<"metrics">> ELSE <<>>)
       IN  rt' = [rt EXCEPT !.pc = "done",
                            !.opts.middleware = rt.opts.middleware \o chain]
    /\ UNCHANGED <<lifeVars, ns, mt, ob, mk>>

(***************************************************************************)
(* The path exclusion matcher (pkg/adapter/http/matcher.go).  A string is  *)
(* the sequence of the tokens its separators "/" delimit: "" is <<"">>,    *)
(* "/" is <<"", "">>, "/a/" is <<"", "a", "">>, "a/b" is <<"a", "b">>.     *)
(***************************************************************************)
MaxTokens == 3      \* most tokens of a request path or of a pattern
MaxPatterns == 3    \* longest list of patterns

\* path.Clean's loop over the tokens toks[i..] of a rooted path: an empty
\* token and "." are dropped, ".." removes the segment before it (nothing at
\* the root), any other token is kept.
RECURSIVE cleanLoop(_, _, _)
cleanLoop(toks, i, out) ==
    IF i > Len(toks) THEN out
    ELSE IF toks[i] = "" \/ toks[i] = "." THEN cleanLoop(toks, i + 1, out)
    ELSE IF toks[i] = ".."
    THEN cleanLoop(toks, i + 1,
                   IF out = <<>> THEN out ELSE SubSeq(out, 1, Len(out) - 1))
    ELSE cleanLoop(toks, i + 1, Append(out, toks[i]))

\* path.Clean that keeps the "." segments.
CleanKeepDots(s) == SelectSeq(s, LAMBDA t : t # "")

\* path.Clean("/" + s): the segments of the cleaned path, <<>> for "/".
Clean(s) == cleanLoop(<<"">> \o s, 1, <<>>)

\* strings.Split(strings.Trim(p, "/"), "/") of a cleaned path: the root path
\* trims to the empty string, which splits into one empty segment.
Split(segs) == IF segs = <<>> THEN <<"">> ELSE segs

\* matchExactSegments without the segment wildcard.
matchLiteralSegments(reqSegments, patternSegments) ==
    \A i \in 1..Len(patternSegments) : patternSegments[i] = reqSegments[i]

\* matchExactSegments(reqSegments, patternSegments), lines 106-113.
matchExactSegments(reqSegments, patternSegments) ==
    \A i \in 1..Len(patternSegments) :
       ~(patternSegments[i] # "*" /\ patternSegments[i] # reqSegments[i])

\* matchSegments(reqSegments, patternSegments), lines 84-103.
matchSegments(reqSegments, patternSegments) ==
    IF reqSegments = <<"">> /\ patternSegments = <<"">> THEN TRUE
    ELSE IF Len(patternSegments) > 0
            /\ patternSegments[Len(patternSegments)] = "*"
    THEN LET fixed == SubSeq(patternSegments, 1, Len(patternSegments) - 1)
         IN  /\ Len(reqSegments) >= Len(fixed)
             /\ matchExactSegments(SubSeq(reqSegments, 1, Len(fixed)), fixed)
    ELSE IF Len(reqSegments) # Len(patternSegments) THEN FALSE
    ELSE matchExactSegments(reqSegments, patternSegments)

\* Matches that tests the first pattern only.
MatchesFirstOnly(reqPath, patterns) ==
    IF Len(patterns) = 0 THEN FALSE
    ELSE matchSegments(Split(Clean(reqPath)), Split(Clean(patterns[1])))

\* defaultMatcher.Matches(reqPath, patterns), lines 61-81: the loop returns at
\* the first pattern that matches.
Matches(reqPath, patterns) ==
    IF Len(patterns) = 0 THEN FALSE
    ELSE LET reqSegments == Split(Clean(reqPath))
         IN  \E i \in 1..Len(patterns) :
                matchSegments(reqSegments, Split(Clean(patterns[i])))

\* The request paths and the patterns of the model, as token sequences.
\* Every path over the separators, "." and two literals that differ in case;
\* the short paths also with ".." and a percent-encoded literal.
PlainTokens == {"", ".", "a", "A"}
PathTokens == PlainTokens \cup {"..", "%61"}
PatternTokens == {"", ".", "*", "a"}
ShortPaths == UNION { [1..n -> PathTokens] : n \in 1..2 }
RawPaths == ShortPaths \cup UNION { [1..n -> PlainTokens] : n \in 1..MaxTokens }
RawPatterns == UNION { [1..n -> PatternTokens] : n \in 1..MaxTokens }

\* "/a", "/a/*", "/*/a", "/*" and "/": the patterns the lists are made of.
ListPatterns ==
    { <<"", "a">>, <<"", "a", "*">>, <<"", "*", "a">>, <<"", "*">>, <<"", "">> }
PatternLists == UNION { [1..n -> ListPatterns] : n \in 0..MaxPatterns }

\* No Matches call.
NoMatch == [pc |-> "none", path |-> <<>>, patterns |-> <<>>, result |-> FALSE]

\* A call of defaultMatcher.Matches returns.
MatchesCall ==
    /\ mt.pc = "call"
    /\ mt' = [mt EXCEPT !.pc = "done", !.result = Matches(mt.path, mt.patterns)]
    /\ UNCHANGED <<lifeVars, ns, rt, ob, mk>>

(***************************************************************************)
(* The observability exclusions: the option that sets them                 *)
(* (pkg/domain/http) and the three middlewares that read them at request   *)
(* time (pkg/adapter/http).  Paths are token sequences, as for the matcher.*)
(***************************************************************************)
MaxExclusions == 2      \* longest exclusion list supplied

\* strings.HasPrefix(path, "/").
HasSlashPrefix(path) == Len(path) >= 2 /\ path[1] = ""

\* One validation loop of WithObservabilityExclusions over paths[i..], seen
\* holding the paths met so far: the error of the first path refused.
RECURSIVE validatePaths(_, _, _, _)
validatePaths(paths, i, seen, duplicate) ==
    IF i > Len(paths) THEN [err |-> Nil, seen |-> seen]
    ELSE IF ~HasSlashPrefix(paths[i])
    THEN [err |-> <<"path must start with /", paths[i]>>, seen |-> seen]
    ELSE IF paths[i] \in seen
    THEN [err |-> <<duplicate, paths[i]>>, seen |-> seen]
    ELSE validatePaths(paths, i + 1, seen \cup {paths[i]}, duplicate)

\* WithObservabilityExclusions with one seen map for both lists.
WithExclusionsOneSeen(loggingPaths, tracingPaths, o) ==
    LET l == validatePaths(loggingPaths, 1, {}, "duplicate logging path")
        t == validatePaths(tracingPaths, 1, l.seen, "duplicate tracing path")
    IN  IF l.err # Nil THEN [err |-> l.err, opts |-> o]
        ELSE IF t.err # Nil THEN [err |-> t.err, opts |-> o]
        ELSE [err |-> Nil, opts |-> [o EXCEPT !.ExcludeFromLogging = loggingPaths,
                                              !.ExcludeFromTracing = tracingPaths]]

\* WithObservabilityExclusions(loggingPaths, tracingPaths) applied to the
\* options o: the error and the options afterwards.
WithObservabilityExclusions(loggingPaths, tracingPaths, o) ==
    LET l == validatePaths(loggingPaths, 1, {}, "duplicate logging path")
        t == validatePaths(tracingPaths, 1, {}, "duplicate tracing path")
    IN  IF l.err # Nil THEN [err |-> l.err, opts |-> o]
        ELSE IF t.err # Nil THEN [err |-> t.err, opts |-> o]
        ELSE [err |-> Nil, opts |-> [o EXCEPT !.ExcludeFromLogging = loggingPaths,
                                              !.ExcludeFromTracing = tracingPaths]]

\* The tests the three middlewares make before instrumenting a request.
tracingSkips(opts, path) == Matches(path, opts.ExcludeFromTracing)
loggingSkips(opts, path) == Matches(path, opts.ExcludeFromLogging)
metricsSkips(opts, metrics, path) ==
    ~metrics \/ Matches(path, opts.ExcludeFromLogging)

\* "/a", "a", "/a/*" and "/b": the strings the exclusion lists are made of;
\* the lists; the paths requested: "/a", "/a/b", "/b" and "/".
ExclusionPaths == { <<"", "a">>, <<"a">>, <<"", "a", "*">>, <<"", "b">> }
ExclusionLists == UNION { [1..n -> ExclusionPaths] : n \in 0..MaxExclusions }
RequestPaths == { <<"", "a">>, <<"", "a", "b">>, <<"", "b">>, <<"", "">> }

\* No router and no request.  stack: the middlewares entered that have
\* work left for when the next handler returns.
NoRequest ==
    [pc |-> "none", logging |-> <<>>, tracing |-> <<>>, path |-> <<>>,
     opts |-> [ExcludeFromLogging |-> <<>>, ExcludeFromTracing |-> <<>>,
               Logger |-> FALSE, TracingProvider |-> FALSE],
     metrics |-> FALSE, err |-> Nil,
     spans |-> 0, logs |-> 0, measured |-> 0, served |-> 0, stack |-> <<>>]

\* Factory.NewRouter applies WithObservabilityExclusions: its error ends the
\* construction, otherwise the router is built and a request comes in.
ApplyExclusions ==
    /\ ob.pc = "options"
    /\ LET w == WithObservabilityExclusions(ob.logging, ob.tracing, ob.opts)
       IN  ob' = IF w.err # Nil
                 THEN [ob EXCEPT !.pc = "done",
                                 !.err = Wrap("applying router option", w.err)]
                 ELSE [ob EXCEPT !.pc = "tracing", !.opts = w.opts]
    /\ UNCHANGED <<lifeVars, ns, rt, mt, mk>>

\* Router.tracingMiddleware, installed when a tracing provider is set: an
\* excluded path goes to the next handler as it is, any other through the
\* otelhttp handler, which starts the span and calls the next handler.
tracingMiddleware ==
    /\ ob.pc = "tracing"
    /\ ob' = IF ob.opts.TracingProvider /\ ~tracingSkips(ob.opts, ob.path)
             THEN [ob EXCEPT !.pc = "logging", !.spans = @ + 1]
             ELSE [ob EXCEPT !.pc = "logging"]
    /\ UNCHANGED <<lifeVars, ns, rt, mt, mk>>

\* Router.loggingMiddleware, installed when a logger is set: an excluded path
\* goes to the next handler as it is; for any other the deferred function
\* logs the request once the next handler has returned.
loggingMiddleware ==
    /\ ob.pc = "logging"
    /\ ob' = IF ob.opts.Logger /\ ~loggingSkips(ob.opts, ob.path)
             THEN [ob EXCEPT !.pc = "metrics", !.stack = <<"logging">> \o @]
             ELSE [ob EXCEPT !.pc = "metrics"]
    /\ UNCHANGED <<lifeVars, ns, rt, mt, mk>>

\* Router.metricsMiddleware, installed when a collector is set: an excluded
\* path goes to the next handler as it is; for any other the request is
\* measured once the next handler has returned.
metricsMiddleware ==
    /\ ob.pc = "metrics"
    /\ ob' = IF ob.metrics /\ ~metricsSkips(ob.opts, ob.metrics, ob.path)
             THEN [ob EXCEPT !.pc = "handler", !.stack = <<"metrics">> \o @]
             ELSE [ob EXCEPT !.pc = "handler"]
    /\ UNCHANGED <<lifeVars, ns, rt, mt, mk>>

\* next.ServeHTTP of the innermost middleware: the route's handler runs.
ServeHTTP ==
    /\ ob.pc = "handler"
    /\ ob' = [ob EXCEPT !.pc = "returning", !.served = @ + 1]
    /\ UNCHANGED <<lifeVars, ns, rt, mt, mk>>

\* The next handler has returned to the innermost middleware with work
\* left: metrics are collected, or the request is logged.
AfterNext ==
    /\ ob.pc = "returning"
    /\ ob' = IF ob.stack = <<>> THEN [ob EXCEPT !.pc = "done"]
             ELSE IF Head(ob.stack) = "metrics"
             THEN [ob EXCEPT !.measured = @ + 1, !.stack = Tail(@)]
             ELSE [ob EXCEPT !.logs = @ + 1, !.stack = Tail(@)]
    /\ UNCHANGED <<lifeVars, ns, rt, mt, mk>>

(***************************************************************************)
(* The configuration masking viewer (pkg/adapter/config,                   *)
(* pkg/domain/config/viewer.go).  A key is the sequence of its characters; *)
(* a configuration map is the set of its entries <<key, node>>, a node     *)
(* being a leaf value, a nested map, or a list that holds one mapping.     *)
(***************************************************************************)
MaxKeys == 2        \* keys a configuration map may hold
MaxMaskCalls == 2   \* masked views taken of one store

LeafNode(v) == [kind |-> "leaf", leaf |-> v, sub |-> {}]
MapNode(m) == [kind |-> "map", leaf |-> "", sub |-> m]
ListNode(m) == [kind |-> "list", leaf |-> "", sub |-> m]   \* []interface{}{m}

\* strings.ToLower, on the letters the keys of the model are written with.
ToLower(str) ==
    [i \in 1..Len(str) |->
        CASE str[i] = "D" -> "d" [] str[i] = "B" -> "b" [] str[i] = "K" -> "k"
          [] str[i] = "E" -> "e" [] str[i] = "Y" -> "y" [] OTHER -> str[i]]

\* strings.Contains(str, substr).
stringsContains(str, substr) ==
    \E i \in 0..Len(str) :
       i + Len(substr) <= Len(str) /\ SubSeq(str, i + 1, i + Len(substr)) = substr

\* containsInsensitive(str, substr), viewer.go lines 41-44.
containsInsensitive(str, substr) ==
    stringsContains(ToLower(str), ToLower(substr))

\* The mask pattern MaskValue uses, and leaves in the strategy: an empty
\* MaskPattern is set to "******" (lines 29-31).
maskPattern(s) == IF s.MaskPattern = "" THEN "******" ELSE s.MaskPattern

\* MaskValue that masks a key only when it equals a sensitive key.
MaskValueWholeKey(s, key, value) ==
    IF \E i \in 1..Len(s.SensitiveKeys) : ToLower(key) = ToLower(s.SensitiveKeys[i])
    THEN LeafNode(maskPattern(s)) ELSE value

\* DefaultMaskStrategy.MaskValue(key, value), lines 28-38: the value returned,
\* the pattern or the value it was handed, whatever that is.
MaskValue(s, key, value) ==
    IF \E i \in 1..Len(s.SensitiveKeys) : containsInsensitive(key, s.SensitiveKeys[i])
    THEN LeafNode(maskPattern(s)) ELSE value

\* maskConfigMap that stores each entry under its dotted key.
RECURSIVE maskConfigMapFullKeys(_, _, _)
maskConfigMapFullKeys(prefix, config, strategy) ==
    { LET fullKey == IF prefix # <<>> THEN prefix \o <<".">> \o e[1] ELSE e[1]
      IN  IF e[2].kind = "map"
          THEN <<fullKey, MapNode(maskConfigMapFullKeys(fullKey, e[2].sub, strategy))>>
          ELSE <<fullKey, MaskValue(strategy, fullKey, e[2])>>
      : e \in config }

\* maskConfigMap(prefix, config, strategy): a new map with an entry for each
\* entry of config, a nested map masked under its dotted key, any other
\* value (a list too) handed to MaskValue with its dotted key.
RECURSIVE maskConfigMap(_, _, _)
maskConfigMap(prefix, config, strategy) ==
    { LET fullKey == IF prefix # <<>> THEN prefix \o <<".">> \o e[1] ELSE e[1]
      IN  IF e[2].kind = "map"
          THEN <<e[1], MapNode(maskConfigMap(fullKey, e[2].sub, strategy))>>
          ELSE <<e[1], MaskValue(strategy, fullKey, e[2])>>
      : e \in config }

\* config holds a leaf at some depth, so MaskValue is called on the strategy.
RECURSIVE hasLeaf(_)
hasLeaf(config) ==
    \E e \in config : IF e[2].kind = "map" THEN hasLeaf(e[2].sub) ELSE TRUE

\* GetMaskedConfig that masks the settings where they are.
GetMaskedConfigInPlace(settings, maskStrategy) ==
    LET strategy == IF ~maskStrategy.set THEN DefaultMaskStrategy ELSE maskStrategy
        masked == maskConfigMap(<<>>, settings, strategy)
    IN  [masked |-> masked, settings |-> masked, strategy |-> maskStrategy]

\* ViperStore.GetMaskedConfig(maskStrategy) on a store holding settings: the
\* masked map returned, and the store's settings and the caller's strategy
\* afterwards.  AllSettings hands out a map of its own; the strategy's empty
\* MaskPattern is filled in by the first MaskValue call.
GetMaskedConfig(settings, maskStrategy) ==
    LET strategy == IF ~maskStrategy.set THEN DefaultMaskStrategy ELSE maskStrategy
        masked == maskConfigMap(<<>>, settings, strategy)
    IN  [masked |-> masked, settings |-> settings,
         strategy |-> IF maskStrategy.set /\ hasLeaf(settings)
                      THEN [maskStrategy EXCEPT !.MaskPattern = maskPattern(maskStrategy)]
                      ELSE maskStrategy]

\* The keys "db", "apikey", "host" and "tokens", of which a map holds the
\* first MaxKeys; the leaf values; the snapshots: maps of leaves and of
\* nested maps of leaves.
KeyNames ==
    << <<"d", "b">>, <<"a", "p", "i", "k", "e", "y">>,
       <<"h", "o", "s", "t">>, <<"t", "o", "k", "e", "n", "s">> >>
ConfigKeys == { KeyNames[i] : i \in 1..MaxKeys }
LeafValues == {"localhost", "******"}
FlatMaps == { { <<k, LeafNode("s3cr3t")>> : k \in K } : K \in SUBSET ConfigKeys }
Snapshots ==
    UNION { { { <<k, f[k]>> : k \in K } :
                f \in [K -> {LeafNode(v) : v \in LeafValues}
                             \cup {MapNode(m) : m \in FlatMaps}] } :
            K \in SUBSET ConfigKeys }

\* No strategy, the default one, one with upper-case keys and its own
\* pattern, one with an empty pattern.
Strategies ==
    { NilStrategy, DefaultMaskStrategy,
      [set |-> TRUE, SensitiveKeys |-> << <<"D", "B">>, <<"K", "E", "Y">> >>, MaskPattern |-> "XX"],
      [set |-> TRUE, SensitiveKeys |-> << <<"h", "o", "s", "t">> >>, MaskPattern |-> ""] }

\* What json.NewEncoder(w).Encode(config) returns: nil, or the error of a
\* value it cannot marshal, met before anything is written.
EncodeResults == {Nil, <<"json: unsupported type">>}

\* A response body: nothing, the JSON document of a map, or a text.
NoBody == [type |-> "", json |-> {}, text |-> ""]
JSONBody(config) == [type |-> "application/json", json |-> config, text |-> ""]
TextBody(msg) == [type |-> "text/plain", json |-> {}, text |-> msg]

\* No store.  method, status and body are those of the last request served.
NoMasking ==
    [pc |-> "none", settings |-> {}, strategy |-> NilStrategy, calls |-> 0,
     masked |-> {}, status |-> 0, method |-> "", body |-> NoBody]

\* A caller takes a masked view with GetMaskedConfig.
GetMaskedConfigCall ==
    /\ mk.pc = "ready"
    /\ mk.calls < MaxMaskCalls
    /\ LET r == GetMaskedConfig(mk.settings, mk.strategy)
       IN  mk' = [mk EXCEPT !.calls = @ + 1, !.settings = r.settings,
                            !.strategy = r.strategy, !.masked = r.masked,
                            !.status = 0, !.method = "", !.body = NoBody]
    /\ UNCHANGED <<lifeVars, ns, rt, mt, ob>>

\* The handler of GetConfigHandler without the test of the method.
GetConfigHandlerAnyMethod(method, enc) ==
    /\ mk.pc = "ready"
    /\ mk.calls < MaxMaskCalls
    /\ LET r == GetMaskedConfig(mk.settings, mk.strategy)
       IN  mk' = [mk EXCEPT !.calls = @ + 1, !.settings = r.settings,
                            !.strategy = r.strategy, !.masked = r.masked,
                            !.method = method,
                            !.status = IF enc = Nil THEN 200 ELSE 500,
                            !.body = IF enc = Nil THEN JSONBody(r.masked)
                                     ELSE TextBody(enc[1])]
    /\ UNCHANGED <<lifeVars, ns, rt, mt, ob>>

\* The handler of GetConfigHandler serves a request: 405 for a method other
\* than GET; otherwise the masked view is taken (GetMaskedConfig returns no
\* error) and handed to the JSON encoder, whose result enc decides between
\* 200 with the document and 500 with the error text.
GetConfigHandler(method, enc) ==
    /\ mk.pc = "ready"
    /\ mk.calls < MaxMaskCalls
    /\ IF method # "GET"
       THEN mk' = [mk EXCEPT !.calls = @ + 1, !.masked = {}, !.method = method,
                            !.status = 405,
                            !.body = TextBody("Method not allowed")]
       ELSE LET r == GetMaskedConfig(mk.settings, mk.strategy)
            IN  mk' = [mk EXCEPT !.calls = @ + 1, !.settings = r.settings,
                                 !.strategy = r.strategy, !.masked = r.masked,
                                 !.method = method,
                                 !.status = IF enc = Nil THEN 200 ELSE 500,
                                 !.body = IF enc = Nil THEN JSONBody(r.masked)
                                          ELSE TextBody(enc[1])]
    /\ UNCHANGED <<lifeVars, ns, rt, mt, ob>>

\* ViperStore.Set(key, value) on a top-level key: the key's entry is replaced
\* or added.
Set(key, value) ==
    /\ mk.pc = "ready"
    /\ mk.calls < MaxMaskCalls
    /\ <<key, LeafNode(value)>> \notin mk.settings
    /\ mk' = [mk EXCEPT !.settings =
                 {e \in @ : e[1] # key} \cup {<<key, LeafNode(value)>>}]
    /\ UNCHANGED <<lifeVars, ns, rt, mt, ob>>

vars == <<lifeVars, ns, rt, mt, ob, mk>>

\* The lifecycle variables of a service nothing is called on.
LifeIdle ==
    /\ store = NewStore(NoTLSSetting)
    /\ hooks = NoHooks
    /\ tracer = FALSE
    /\ preStart = FALSE
    /\ server = NilServer
    /\ servers = <<>>
    /\ starts = <<>>
    /\ sd = NoShutdown
    /\ sdCalls = 0

Init ==
    LifeInit(ShutdownServices) /\ ns = NoNewService /\ rt = NoRouter /\ mt = NoMatch
    /\ ob = NoRequest /\ mk = NoMasking

InitStart ==
    LifeInit(StartServices) /\ ns = NoNewService /\ rt = NoRouter /\ mt = NoMatch
    /\ ob = NoRequest /\ mk = NoMasking

InitNew ==
    /\ LifeIdle
    /\ \E o \in NewOptions, rate \in SampleRates, d \in NewDeps :
          LET written == [o EXCEPT !.TracingSampleRate = rate]
              opts == [o EXCEPT !.TracingSampleRate = RateField(rate)]
          IN  ns = [NoNewService EXCEPT !.pc = "validate", !.given = written,
                                        !.opts = opts, !.deps = d]
    /\ rt = NoRouter
    /\ mt = NoMatch
    /\ ob = NoRequest /\ mk = NoMasking

InitRouter ==
    /\ LifeIdle
    /\ ns = NoNewService
    /\ \E i \in RouterInputs : rt = [NoRouter EXCEPT !.pc = "options", !.in = i]
    /\ mt = NoMatch
    /\ ob = NoRequest /\ mk = NoMasking

\* The arguments of a Matches call: any path against one pattern, a short
\* path against a list.
InitMatch ==
    /\ LifeIdle
    /\ ns = NoNewService
    /\ rt = NoRouter
    /\ \/ \E p \in RawPaths, q \in RawPatterns :
             mt = [NoMatch EXCEPT !.pc = "call", !.path = p, !.patterns = <<q>>]
       \/ \E p \in ShortPaths, l \in PatternLists :
             mt = [NoMatch EXCEPT !.pc = "call", !.path = p, !.patterns = l]
    /\ ob = NoRequest /\ mk = NoMasking

\* A router given two exclusion lists, with all three collaborators or with
\* the logger only, and the path of the request it then serves.
InitRequest ==
    /\ LifeIdle
    /\ ns = NoNewService
    /\ rt = NoRouter
    /\ mt = NoMatch
    /\ \E l \in ExclusionLists, t \in ExclusionLists, p \in RequestPaths,
          all \in BOOLEAN :
          ob = [NoRequest EXCEPT !.pc = "options", !.logging = l, !.tracing = t,
                                 !.path = p, !.opts.Logger = TRUE,
                                 !.opts.TracingProvider = all, !.metrics = all]
    /\ mk = NoMasking

\* A store holding a snapshot, and the strategy its views are taken with.
InitMask ==
    /\ LifeIdle
    /\ ns = NoNewService
    /\ rt = NoRouter
    /\ mt = NoMatch
    /\ ob = NoRequest
    /\ \E c \in Snapshots, st \in Strategies :
          mk = [NoMasking EXCEPT !.pc = "ready", !.settings = c, !.strategy = st]

NextNew ==
    \/ NewServiceValidate
    \/ \E r \in FactoryResults : initConfig(r)
    \/ \E r \in FactoryResults : initLogger(r)
    \/ \E r \in FactoryResults : initTracing(r)
    \/ \E r \in FactoryResults : initRouter(r)

\* NewService called with options for the server, its store one that
\* implements MaskedStore.
InitService ==
    /\ LifeIdle
    /\ \E o \in ServiceOptions :
          ns = [NoNewService EXCEPT !.pc = "validate",
                   !.given = [o EXCEPT !.TracingSampleRate = Unset],
                   !.opts = o,
                   !.deps = [configurable |-> FALSE, masked |-> TRUE]]
    /\ rt = NoRouter
    /\ mt = NoMatch
    /\ ob = NoRequest /\ mk = NoMasking

\* NewService, then Start and Shutdown on the Service it returned; the store
\* stays as NewService made it.
NextService ==
    \/ NextNew
    \/ ns.ret.svc /\ \E h \in PreStartHooks : StartBegin(h)
    \/ ns.ret.svc /\ \E i \in 1..MaxStarts, v \in 1..MaxStarts : StartServe(i, v)
    \/ ns.ret.svc /\ \E i \in 1..MaxStarts, r \in HookServeResults : StartReturn(i, r)
    \/ ns.ret.svc /\ \E now \in CallTimes, d \in ParentDeadlines : ShutdownBegin(now, d)
    \/ ns.ret.svc /\ \E v \in 0..MaxStarts, r \in TransportResults : ShutdownTransport(v, r)
    \/ ns.ret.svc /\ \E r \in TracerResults : ShutdownTracer(r)

NextRouter ==
    \/ NewRouter
    \/ configureMiddleware

NextMatch == MatchesCall

NextRequest ==
    \/ ApplyExclusions
    \/ tracingMiddleware
    \/ loggingMiddleware
    \/ metricsMiddleware
    \/ ServeHTTP
    \/ AfterNext

\* The values the viewer's store holds at the top level: strings, and lists
\* holding the mapping {apikey: value}.
ViewerValues ==
    {LeafNode(v) : v \in LeafValues}
    \cup {ListNode({<<KeyNames[2], LeafNode(v)>>}) : v \in LeafValues}

\* A store of top-level values behind the configuration handler, and the
\* strategy the handler was made with.
InitViewer ==
    /\ LifeIdle
    /\ ns = NoNewService
    /\ rt = NoRouter
    /\ mt = NoMatch
    /\ ob = NoRequest
    /\ \E K \in SUBSET ConfigKeys, st \in Strategies :
          \E f \in [K -> ViewerValues] :
             mk = [NoMasking EXCEPT !.pc = "ready",
                                    !.settings = { <<k, f[k]>> : k \in K },
                                    !.strategy = st]

NextMask ==
    \/ GetMaskedConfigCall
    \/ \E method \in {"GET", "POST"}, enc \in EncodeResults :
          GetConfigHandler(method, enc)

\* The viewer's requests, with the store written to between them.
NextViewer ==
    \/ \E method \in {"GET", "POST"}, enc \in EncodeResults :
          GetConfigHandler(method, enc)
    \/ \E value \in LeafValues : Set(KeyNames[2], value)


Next ==
    \/ \E e \in PreStartResults : StartBegin(e)
    \/ \E i \in 1..MaxStarts, v \in 1..MaxStarts : StartServe(i, v)
    \/ \E i \in 1..MaxStarts, r \in HookServeResults : StartReturn(i, r)
    \/ \E now \in CallTimes, d \in ParentDeadlines : ShutdownBegin(now, d)
    \/ \E v \in 0..MaxStarts, r \in TransportResults : ShutdownTransport(v, r)
    \/ \E r \in TracerResults : ShutdownTracer(r)
    \/ \E k \in Keys, val \in {Val(x) : x \in Ports \cup Timeouts} \cup {Missing(0)} :
          SetConfig(k, val)

Spec == Init /\ [][Next]_vars

SpecStart == InitStart /\ [][Next]_vars

SpecNew == InitNew /\ [][NextNew]_vars

SpecService == InitService /\ [][NextService]_vars

SpecRouter == InitRouter /\ [][NextRouter]_vars

SpecMatch == InitMatch /\ [][NextMatch]_vars

SpecRequest == InitRequest /\ [][NextRequest]_vars

SpecMask == InitMask /\ [][NextMask]_vars

SpecViewer == InitViewer /\ [][NextViewer]_vars

(***************************************************************************)
(* Properties of Start.                                                    *)
(***************************************************************************)

\* s is an initial part of t.
IsPrefix(s, t) ==
    /\ Len(s) <= Len(t)
    /\ \A k \in 1..Len(s) : s[k] = t[k]

\* The stages a Start call of this service goes through when nothing fails.
StartStages ==
    IF preStart THEN <<"load", "build", "tls", "prestart", "serve">>
    ELSE <<"load", "build", "tls", "serve">>

\* Every Start call has run an initial part of the stages, in their order; a
\* call that ended before the serve stage returned an error and used no server.
StartInOrder ==
    \A i \in 1..Len(starts) :
        LET c == starts[i]
        IN  /\ IsPrefix(c.steps, StartStages)
            /\ c.pc = "serving" => c.steps = StartStages
            /\ (c.pc = "done" /\ c.steps # StartStages) =>
                  /\ c.result # Nil
                  /\ c.use = NilServer
                  /\ ~Contains(c.result, "server error")

\* What a new Start call does with the store and the hook result it meets:
\* a missing port, an unreadable certificate or key, or a failing PreStart
\* hook end the call with an error before any server object is created.
StartFailsFast ==
    \A e \in PreStartResults :
        StartBegin(e) =>
            LET c == starts'[Len(starts')]
                noPort == ~store[KPort].ok
                useFiles == store[KTLS].v /\ store[KCert].v # "" /\ store[KKey].v # ""
                badPair == useFiles /\ ~(store[KCert].v \in GoodFiles
                                          /\ store[KKey].v \in GoodFiles)
                badHook == preStart /\ e.err # Nil
            IN  /\ noPort =>
                      /\ Contains(c.result, "server port not configured")
                      /\ c.steps = <<"load">>
                /\ (~noPort /\ badPair) =>
                      /\ Contains(c.result, "loading TLS cert/key")
                      /\ c.steps = <<"load", "build", "tls">>
                /\ (~noPort /\ ~badPair /\ badHook) =>
                      /\ Contains(c.result, "pre-start hook")
                      /\ c.steps = <<"load", "build", "tls", "prestart">>
                /\ (noPort \/ badPair \/ badHook) =>
                      /\ c.pc = "done"
                      /\ c.result # Nil
                      /\ servers' = servers
                      /\ server' = server
                /\ ~(noPort \/ badPair \/ badHook) =>
                      /\ c.pc = "serve"
                      /\ Len(servers') = Len(servers) + 1

\* A Start call that has returned does nothing more.
StartReturned ==
    \A i \in 1..Len(starts) : starts[i].pc = "done" => starts'[i] = starts[i]

\* C1: Start loads the configuration, builds the listener configuration,
\* applies TLS, runs the optional PreStart hook, then serves, in that order;
\* a missing port (error containing "server port not configured"), a
\* certificate or key that cannot be loaded, or a PreStart error makes Start
\* return an error without the ListenAndServe hook or the real listener ever
\* being invoked by that call.
C1_StartOrder == []StartInOrder /\ [][StartFailsFast /\ StartReturned]_vars

\* C1 witness: one Start call served over TLS after its PreStart hook ran, and
\* another call of the same service ended at the missing port.
C1_Witness ==
    /\ preStart
    /\ \E i, j \in 1..Len(starts) :
          /\ starts[i].pc = "serving" /\ starts[i].tls
          /\ starts[i].steps = <<"load", "build", "tls", "prestart", "serve">>
          /\ starts[j].pc = "done"
          /\ Contains(starts[j].result, "server port not configured")

(***************************************************************************)
(* Properties of Shutdown.                                                 *)
(***************************************************************************)

\* The Shutdown call has invoked the transport's shutdown / the tracer's.
TransportAsked == \E k \in 1..Len(sd.trace) : sd.trace[k].op = "transport"
TracerAsked == \E k \in 1..Len(sd.trace) : sd.trace[k].op = "tracer"

\* A Shutdown call that loads its configuration derives its context from the
\* store as it is at the call: the stored timeout, 15s without one, counted
\* from the call and cut short by the caller's deadline.
ShutdownDeadline ==
    \A now \in CallTimes, d \in ParentDeadlines :
        (ShutdownBegin(now, d) /\ store[KPort].ok) =>
            LET timeout == IF store[KShutdown].ok THEN store[KShutdown].v ELSE 15
                own == now + timeout
                caller == IF d = NoDeadline THEN own ELSE now + d
            IN  /\ sd'.pc = "transport"
                /\ sd'.ctx = IF caller < own THEN caller ELSE own

\* The context of a call does not change while the call runs.
ContextKept ==
    sd.pc \in {"transport", "tracer"} => sd'.ctx = sd.ctx

\* What the transport and the tracer were handed is the context of the call.
ContextHanded ==
    \A k \in 1..Len(sd.trace) : sd.trace[k].ctx = sd.ctx

\* C2: Shutdown reads server.http.shutdown_timeout from the store when it is
\* called (15s when absent) and hands transport shutdown a context whose
\* deadline is the earlier of the caller's deadline and call time + timeout,
\* so that an edit of the stored timeout made before Shutdown is applied.
C2_ShutdownDeadline == []ContextHanded /\ [][ShutdownDeadline /\ ContextKept]_vars

\* C2 witness: after a Start, a Shutdown called at second 1 handed the
\* transport the deadline 6: the edited timeout of 5s, not the default.
C2_Witness ==
    /\ Len(starts) > 0
    /\ sd.at = 1
    /\ TransportAsked
    /\ sd.trace[1].ctx = 6

\* C3: the tracer's Shutdown is invoked iff a tracer is configured and the
\* transport's shutdown returned no error; it is invoked after the transport's
\* shutdown, with the same context; when the transport fails, Shutdown returns
\* at once and the tracer is not asked.
C3_TracerAfterTransport ==
    /\ TracerAsked =>
          /\ tracer
          /\ Len(sd.trace) = 2
          /\ sd.trace[1].op = "transport"
          /\ sd.trace[2].op = "tracer"
          /\ sd.trace[2].ctx = sd.trace[1].ctx
          /\ sd.transportErr = Nil
    /\ (sd.pc = "done" /\ TransportAsked /\ sd.transportErr = Nil /\ tracer)
          => TracerAsked
    /\ (TransportAsked /\ sd.transportErr # Nil) =>
          /\ sd.pc \in {"done", "panicked"}
          /\ ~TracerAsked

\* C3 witness: a Shutdown returned after asking the transport, then the tracer.
C3_Witness ==
    /\ sd.pc = "done"
    /\ TracerAsked
    /\ sd.trace[2].ctx = sd.trace[1].ctx

\* C4: Shutdown returns nil iff the transport's shutdown and, with a tracer
\* configured, the tracer's shutdown both succeeded; a transport failure comes
\* back wrapped with "server shutdown", a tracer failure wrapped with "tracer
\* shutdown", never both in one error; "Server stopped" is logged only when
\* nil is returned.
C4_ShutdownResult ==
    /\ sd.pc = "done" =>
          /\ sd.result = Nil <=>
                /\ TransportAsked
                /\ sd.transportErr = Nil
                /\ tracer => (TracerAsked /\ sd.tracerErr = Nil)
          /\ sd.transportErr # Nil =>
                sd.result = Wrap("server shutdown", sd.transportErr)
          /\ sd.tracerErr # Nil =>
                sd.result = Wrap("tracer shutdown", sd.tracerErr)
          /\ ~(Contains(sd.result, "server shutdown")
                 /\ Contains(sd.result, "tracer shutdown"))
    /\ Contains(sd.logs, "Server stopped") => (sd.pc = "done" /\ sd.result = Nil)

\* C4 witness: a Shutdown whose transport succeeded and whose tracer failed
\* returned the tracer's error.
C4_Witness ==
    /\ sd.pc = "done"
    /\ sd.transportErr = Nil
    /\ sd.tracerErr # Nil
    /\ Contains(sd.result, "tracer shutdown")

\* C5: every Shutdown call on a started service attempts the transport's
\* shutdown exactly once, whatever the store holds: here, a Shutdown that has
\* returned while a Start call is serving has asked the transport once.
C5_TransportOnce ==
    (sd.pc = "done" /\ \E i \in 1..Len(starts) : starts[i].pc = "serving") =>
        Cardinality({k \in 1..Len(sd.trace) : sd.trace[k].op = "transport"}) = 1

(***************************************************************************)
(* Properties of the lifecycle.                                            *)
(***************************************************************************)

\* C6: the lifecycle only moves New -> Initialized -> Running -> Stopped: a
\* Start call made after a Shutdown has completed never serves, and at no time
\* are two listeners bound.
C6_Lifecycle ==
    /\ \A i \in 1..Len(starts) : starts[i].afterStop => starts[i].pc # "serving"
    /\ Cardinality({j \in 1..Len(servers) : servers[j].listening}) <= 1

\* One Start call at most and one Shutdown call at most have been made.
OneEach == Len(starts) <= 1 /\ sdCalls <= 1

\* Shutdown has not failed on, and has not used, a server that no Start has
\* stored; no listener is bound once it has returned nil.
UsesCreatedServer ==
    OneEach =>
        /\ sd.pc # "panicked"
        /\ (TransportAsked /\ ~sd.viaHook) => sd.target # NilServer
        /\ LifeState = "Stopped" => \A j \in 1..Len(servers) : ~servers[j].listening

\* Once Shutdown has returned nil no Start call begins to serve.
NoServeAfterStop ==
    (OneEach /\ LifeState = "Stopped") =>
        \A i \in 1..Len(starts) :
            (i <= Len(starts') /\ starts'[i].pc = "serving") => starts[i].pc = "serving"

\* C7: with one Start call and one Shutdown call on different threads, in any
\* interleaving (a Start that has not yet stored its server has not taken its
\* first step here), Shutdown never uses a server that Start has not created,
\* and once Shutdown has returned nil the service neither serves nor starts
\* to serve.
C7_ShutdownSafe == []UsesCreatedServer /\ [][NoServeAfterStop]_vars

(***************************************************************************)
(* Properties of NewService.                                               *)
(***************************************************************************)

\* The factories a NewService call with these options invokes, in order,
\* when nothing fails.
NewStages ==
    IF ns.opts.TracingEndpoint = ""
    THEN <<"ConfigFactory.NewStore", "LoggerFactory.NewLogger",
           "RouterFactory.NewRouter">>
    ELSE <<"ConfigFactory.NewStore", "LoggerFactory.NewLogger",
           "TracerFactory.NewProvider", "RouterFactory.NewRouter">>

\* The message an error of the stage of factory f carries; of validation
\* when no factory was invoked.
StageMessage(calls) ==
    IF calls = <<>> THEN "invalid options"
    ELSE LET f == calls[Len(calls)]
         IN  CASE f = "ConfigFactory.NewStore" -> "creating config store"
               [] f = "LoggerFactory.NewLogger" -> "creating logger"
               [] f = "TracerFactory.NewProvider" -> "creating tracer"
               [] f = "RouterFactory.NewRouter" -> "creating router"

\* The factories are invoked in the order of the stages; NewService returns
\* a service or an error, never both; the error names the last stage entered;
\* a returned service has its store, its logger and its router.
NewInOrder ==
    ns.pc # "none" =>
        /\ IsPrefix(ns.calls, NewStages)
        /\ ns.opts.ServiceName = "" => ns.calls = <<>>
        /\ ns.pc = "done" =>
              /\ ns.ret.svc <=> ns.ret.err = Nil
              /\ ns.ret.err # Nil => ns.ret.err[1] = StageMessage(ns.calls)
              /\ ns.ret.svc =>
                    /\ ns.calls = NewStages
                    /\ ns.svc.config /\ ns.svc.logger /\ ns.svc.router
                    /\ ns.svc.tracer <=> ns.opts.TracingEndpoint # ""

\* A factory that fails ends the call: no service, the factory's error wrapped.
NewFailsFast ==
    \A r \in FactoryResults \ {Nil} :
        \/ initConfig(r)
        \/ initLogger(r)
        \/ (initTracing(r) /\ ns.opts.TracingEndpoint # "")
        \/ initRouter(r)
        => /\ ns'.pc = "done"
           /\ ~ns'.ret.svc
           /\ Contains(ns'.ret.err, r[1])

\* C8: NewService validates the options, then builds the store, the logger,
\* the tracer (only with a tracing endpoint, the tracer factory being left
\* alone otherwise) and the router, in that order; the first failing stage
\* ends it with a nil service and an error naming the stage, no later factory
\* being invoked; a returned service has a store, a logger and a router.
C8_NewServiceStages == []NewInOrder /\ [][NewFailsFast]_vars

\* C8 witness: the tracer factory failed after the store and the logger were
\* built; NewService returned its error and the router factory was not asked.
C8_Witness ==
    /\ ns.pc = "done"
    /\ ~ns.ret.svc
    /\ ns.calls = <<"ConfigFactory.NewStore", "LoggerFactory.NewLogger",
                    "TracerFactory.NewProvider">>
    /\ Contains(ns.ret.err, "creating tracer")

(***************************************************************************)
(* Properties of the middleware ordering.                                  *)
(***************************************************************************)

\* order is non-empty, has no category twice, and has the three required ones.
Accepted(order) ==
    /\ Len(order) > 0
    /\ \A i, j \in 1..Len(order) : i # j => order[i] # order[j]
    /\ \A c \in {"core", "security", "observability"} :
          \E i \in 1..Len(order) : order[i] = c

\* order without the category c.
WithoutCategory(order, c) == SelectSeq(order, LAMBDA x : x # c)

\* order with a second copy of its k-th category put after position at.
WithCopy(order, k, at) ==
    SubSeq(order, 1, at) \o <<order[k]>> \o SubSeq(order, at + 1, Len(order))

BuiltIn(c) ==
    IF c = "core" THEN <<"RequestID", "RealIP", "Recoverer", "Timeout">>
    ELSE IF c = "observability"
    THEN (IF rt.in.tracing THEN <<"tracing">> ELSE <<>>)
         \o (IF rt.in.logger THEN <<"logging">> ELSE <<>>)
         \o (IF rt.in.metrics THEN <<"metrics">> ELSE <<>>)
    ELSE <<>>

\* The custom middleware registered for category c, in registration order.
CustomFor(c) ==
    LET es == {e \in rt.in.ordering.CustomMiddleware : e[1] = c}
    IN  IF es = {} THEN <<>> ELSE (CHOOSE e \in es : TRUE)[2]

\* The chain of the categories order[i..]: built-in, then custom, of each.
RECURSIVE ChainFrom(_, _)
ChainFrom(order, i) ==
    IF i > Len(order) THEN <<>>
    ELSE BuiltIn(order[i]) \o CustomFor(order[i]) \o ChainFrom(order, i + 1)

\* C10: the chain installed at construction is, for each category of the
\* configured Order in sequence (Core, Security, Application, Observability
\* when none is supplied), the category's built-in middleware followed by its
\* custom middleware in registration order.
C10_ChainFollowsOrder ==
    (rt.pc = "done" /\ rt.err = Nil) =>
        rt.opts.middleware =
            ChainFrom(IF rt.in.ordering.set THEN rt.in.ordering.Order
                      ELSE <<"core", "security", "application", "observability">>, 1)

(***************************************************************************)
(* Properties of the router options.                                       *)
(***************************************************************************)

\* The orderings a target RouterOptions may hold before the option is applied.
PriorOrderings ==
    { NoOrdering,
      [set |-> TRUE,
       Order |-> <<"core", "security", "application", "observability">>,
       CustomMiddleware |-> {}] }

\* The ordering is one WithMiddlewareOrdering has to reject: nil, an Order
\* that fails validation, or custom middleware under a category outside
\* {Core, Security, Application, Observability}.
MustReject(ordering) ==
    \/ ~ordering.set
    \/ validateMiddlewareOrdering(ordering.Order) # Nil
    \/ \E e \in ordering.CustomMiddleware :
          e[1] \notin {"core", "security", "application", "observability"}

\* C11: WithMiddlewareOrdering rejects a nil ordering, an ordering whose Order
\* fails validation and an ordering with custom middleware under a category
\* outside the four; a rejection leaves the target's MiddlewareOrdering as it
\* was, and Factory.NewRouter then returns the error with no middleware
\* built or installed.
C11_OrderingRejected ==
    (rt.pc # "none" /\ rt.in.orderingOption /\ MustReject(rt.in.ordering)) =>
        /\ \A p \in PriorOrderings :
              LET o == [NoRouter.opts EXCEPT !.MiddlewareOrdering = p]
                  w == WithMiddlewareOrdering(rt.in.ordering, o)
              IN  w.err # Nil /\ w.opts = o
        /\ rt.pc # "middleware"
        /\ rt.opts.middleware = <<>>
        /\ rt.opts.MiddlewareOrdering = NoOrdering
        /\ rt.pc = "done" => Contains(rt.err, "applying router option")

\* C11 witness: NewRouter has returned the rejection of an ordering whose
\* Order is valid and whose custom middleware is under a foreign category.
C11_Witness ==
    /\ rt.pc = "done"
    /\ rt.in.orderingOption /\ rt.in.ordering.set
    /\ validateMiddlewareOrdering(rt.in.ordering.Order) = Nil
    /\ rt.in.ordering.CustomMiddleware = {<<"audit", <<"trail">>>>}
    /\ Contains(rt.err, "invalid middleware category for custom middleware")
    /\ rt.opts.middleware = <<>>

\* C12: an ordering accepted by validation, and so the ordering a built
\* router holds, has an Order made only of Core, Security, Application and
\* Observability.
C12_ClosedCategories ==
    (rt.pc \notin {"none", "options"} /\ rt.in.ordering.set) =>
        LET order == rt.in.ordering.Order
        IN  /\ validateMiddlewareOrdering(order) = Nil =>
                  \A i \in 1..Len(order) :
                     order[i] \in {"core", "security", "application", "observability"}
            /\ rt.opts.MiddlewareOrdering.set =>
                  \A i \in 1..Len(rt.opts.MiddlewareOrdering.Order) :
                     rt.opts.MiddlewareOrdering.Order[i]
                        \in {"core", "security", "application", "observability"}

(***************************************************************************)
(* Properties of the path exclusion matcher.                               *)
(***************************************************************************)

\* The segments of the canonical form of a path or pattern: none for "/".
Canonical(s) == Clean(s)

\* The last segment of the canonical pattern is a standalone "*".
TrailingWildcard(pat) == pat # <<>> /\ pat[Len(pat)] = "*"

\* Each pattern segment is "*" or equals the request segment at its position.
SegmentsAgree(req, pat) ==
    \A i \in 1..Len(pat) : pat[i] = "*" \/ pat[i] = req[i]

\* C15: a pattern whose last segment is a standalone "*" matches iff the
\* request has at least as many segments as the pattern's fixed prefix and
\* each fixed-prefix segment is "*" or equals the request segment at its
\* position; the root path has no segment, so only a pattern with an empty
\* fixed prefix matches it.
C15_TrailingWildcard ==
    (mt.pc = "done" /\ Len(mt.patterns) = 1
        /\ TrailingWildcard(Canonical(mt.patterns[1]))) =>
        LET req == Canonical(mt.path)
            pat == Canonical(mt.patterns[1])
            fixed == SubSeq(pat, 1, Len(pat) - 1)
        IN  mt.result <=> (Len(req) >= Len(fixed) /\ SegmentsAgree(req, fixed))

\* C16: a pattern without a trailing wildcard matches iff the request has the
\* same number of segments and each pattern segment is "*" or literally equal
\* to the request segment at its position; a segment that differs in case,
\* or that is the percent-encoded form of the pattern's, is not equal.
C16_ExactPattern ==
    (mt.pc = "done" /\ Len(mt.patterns) = 1
        /\ ~TrailingWildcard(Canonical(mt.patterns[1]))) =>
        LET req == Canonical(mt.path)
            pat == Canonical(mt.patterns[1])
        IN  /\ mt.result <=> (Len(req) = Len(pat) /\ SegmentsAgree(req, pat))
            /\ (\E i \in 1..Len(pat) :
                  /\ pat[i] = "a"
                  /\ i <= Len(req)
                  /\ req[i] \in {"A", "%61"}) => ~mt.result

\* C16 witness: "A/a" was matched by the pattern "/*/a".
C16_Witness ==
    /\ mt.pc = "done"
    /\ mt.path = <<"A", "a">>
    /\ mt.patterns = <<<<"", "*", "a">>>>
    /\ mt.result

\* The string s with the token t put after its k-th token: t = "" repeats a
\* separator (or, at the end, appends one), t = "." inserts a "." segment.
Insert(s, k, t) == SubSeq(s, 1, k) \o <<t>> \o SubSeq(s, k + 1, Len(s))

\* The list of patterns with its i-th pattern replaced by q.
WithPattern(patterns, i, q) == [patterns EXCEPT ![i] = q]

\* C17: the result of Matches is unchanged when a separator is appended or
\* repeated, or a "." segment inserted, in the path or in a pattern, and the
\* empty path is matched as the root path "/" is, which the pattern "/"
\* matches.
C17_CanonicalForms ==
    mt.pc = "done" =>
        /\ \A k \in 0..Len(mt.path), t \in {"", "."} :
              Matches(Insert(mt.path, k, t), mt.patterns) = mt.result
        /\ \A i \in 1..Len(mt.patterns) :
              \A k \in 0..Len(mt.patterns[i]), t \in {"", "."} :
                 Matches(mt.path,
                         WithPattern(mt.patterns, i, Insert(mt.patterns[i], k, t)))
                    = mt.result
        /\ mt.path = <<"">> =>
              /\ mt.result = Matches(<<"", "">>, mt.patterns)
              /\ mt.patterns = <<<<"", "">>>> => mt.result

\* C17 witness: "/./a" was matched by the pattern "/a/".
C17_Witness ==
    /\ mt.pc = "done"
    /\ mt.path = <<"", ".", "a">>
    /\ mt.patterns = <<<<"", "a", "">>>>
    /\ mt.result

\* C18: Matches is true iff some pattern of the list matches the path when
\* tested alone; reordering the list or leaving out patterns that do not
\* match alone changes nothing, and the result is false for an empty list.
C18_AnyPattern ==
    mt.pc = "done" =>
        LET n == Len(mt.patterns)
            alone == {i \in 1..n : Matches(mt.path, <<mt.patterns[i]>>)}
        IN  /\ mt.result <=> alone # {}
            /\ \A f \in Permutations(1..n) :
                  Matches(mt.path, [i \in 1..n |-> mt.patterns[f[i]]]) = mt.result
            /\ \A i \in 1..n :
                  Matches(mt.path,
                          SubSeq(mt.patterns, 1, i - 1) \o SubSeq(mt.patterns, i + 1, n))
                     = (alone \ {i} # {})
            /\ n = 0 => ~mt.result

\* C18 witness: "/A" was matched by the list "/a", "/", "/*", whose last
\* pattern alone matches it.
C18_Witness ==
    /\ mt.pc = "done"
    /\ mt.path = <<"", "A">>
    /\ mt.patterns = << <<"", "a">>, <<"", "">>, <<"", "*">> >>
    /\ mt.result

(***************************************************************************)
(* Properties of the observability exclusions.                             *)
(***************************************************************************)

\* Every path of the list begins with "/" and none stands in it twice.
WellFormedList(l) ==
    /\ \A i \in 1..Len(l) : Len(l[i]) > 1 /\ Head(l[i]) = ""
    /\ \A i, j \in 1..Len(l) : i # j => l[i] # l[j]

\* C13: tracing is skipped iff the path matches the tracing exclusions,
\* logging iff it matches the logging exclusions, and the decision of each
\* of the three middlewares stays the same when the exclusion list of
\* another is changed: a path excluded from tracing only is logged and
\* measured.  The request reaches the next handler exactly once.
C13_IndependentDecisions ==
    (ob.pc = "done" /\ ob.err = Nil /\ ob.opts.TracingProvider /\ ob.metrics) =>
        /\ ob.spans = 0 <=> Matches(ob.path, ob.opts.ExcludeFromTracing)
        /\ ob.logs = 0 <=> Matches(ob.path, ob.opts.ExcludeFromLogging)
        /\ \A other \in ExclusionLists :
              LET newLogging == [ob.opts EXCEPT !.ExcludeFromLogging = other]
                  newTracing == [ob.opts EXCEPT !.ExcludeFromTracing = other]
              IN  /\ tracingSkips(newLogging, ob.path) = (ob.spans = 0)
                  /\ metricsSkips(newLogging, ob.metrics, ob.path) = (ob.measured = 0)
                  /\ loggingSkips(newTracing, ob.path) = (ob.logs = 0)
                  /\ metricsSkips(newTracing, ob.metrics, ob.path) = (ob.measured = 0)
        /\ (Matches(ob.path, ob.opts.ExcludeFromTracing)
              /\ ~Matches(ob.path, ob.opts.ExcludeFromLogging)) =>
              ob.logs = 1 /\ ob.measured = 1
        /\ ob.served = 1

\* C14: WithObservabilityExclusions accepts the two lists iff each is well
\* formed, whether or not they share a path and whether or not they are
\* empty; a rejection leaves ExcludeFromLogging and ExcludeFromTracing of
\* the target as they were, an acceptance sets them to the lists given.
C14_ExclusionValidation ==
    ob.pc # "none" =>
        LET ok == WellFormedList(ob.logging) /\ WellFormedList(ob.tracing)
        IN  /\ \A before \in {<<>>, << <<"", "b">> >>} :
                  LET o == [ob.opts EXCEPT !.ExcludeFromLogging = before,
                                           !.ExcludeFromTracing = before]
                      w == WithObservabilityExclusions(ob.logging, ob.tracing, o)
                  IN  /\ w.err = Nil <=> ok
                      /\ w.err # Nil => w.opts = o
                      /\ w.err = Nil =>
                            /\ w.opts.ExcludeFromLogging = ob.logging
                            /\ w.opts.ExcludeFromTracing = ob.tracing
            /\ ob.pc # "options" =>
                  /\ ob.err = Nil <=> ok
                  /\ ob.err # Nil =>
                        /\ ob.opts.ExcludeFromLogging = <<>>
                        /\ ob.opts.ExcludeFromTracing = <<>>
                        /\ ob.served = 0
                  /\ ob.err = Nil =>
                        /\ ob.opts.ExcludeFromLogging = ob.logging
                        /\ ob.opts.ExcludeFromTracing = ob.tracing

\* C14 witness: the lists "/a", "/b" and "/a", which share a path, were
\* accepted and set, and the request was served.
C14_Witness ==
    /\ ob.pc = "done"
    /\ ob.err = Nil
    /\ ob.logging = << <<"", "a">>, <<"", "b">> >>
    /\ ob.tracing = << <<"", "a">> >>
    /\ ob.opts.ExcludeFromLogging = ob.logging
    /\ ob.opts.ExcludeFromTracing = ob.tracing

(***************************************************************************)
(* Properties of the masking viewer.                                       *)
(***************************************************************************)

\* The nodes of a configuration map, each with the path of keys leading to it.
RECURSIVE Nodes(_, _)
Nodes(path, config) ==
    UNION { {[path |-> Append(path, e[1]), kind |-> e[2].kind, leaf |-> e[2].leaf]}
            \cup (IF e[2].kind = "map" THEN Nodes(Append(path, e[1]), e[2].sub)
                  ELSE {}) : e \in config }

\* The keys of a path joined with dots.
RECURSIVE Dotted(_)
Dotted(path) ==
    IF Len(path) = 1 THEN path[1]
    ELSE path[1] \o <<".">> \o Dotted(Tail(path))

\* sub occurs in str when the case of the letters is left aside.
Occurs(sub, str) ==
    \E a \in 0..Len(str) :
       /\ a + Len(sub) <= Len(str)
       /\ \A j \in 1..Len(sub) : ToLower(str)[a + j] = ToLower(sub)[j]

\* The sensitive substrings and the mask of a strategy, nil being the default.
SensitiveOf(strategy) ==
    IF strategy.set THEN {strategy.SensitiveKeys[i] : i \in 1..Len(strategy.SensitiveKeys)}
    ELSE { <<"p", "a", "s", "s", "w", "o", "r", "d">>, <<"s", "e", "c", "r", "e", "t">>,
           <<"k", "e", "y">>, <<"t", "o", "k", "e", "n">>,
           <<"c", "r", "e", "d", "e", "n", "t", "i", "a", "l">> }
MaskOf(strategy) ==
    IF strategy.set /\ strategy.MaskPattern # "" THEN strategy.MaskPattern
    ELSE "******"

\* C19: the masked view has the keys and the nesting of the snapshot, and
\* each of its leaves is the mask pattern if the leaf's dotted key contains
\* a sensitive substring, letter case aside, and the snapshot's value
\* otherwise.
C19_MaskedView ==
    (mk.calls > 0 /\ mk.status # 405) =>
        LET before == Nodes(<<>>, mk.settings)
            after == Nodes(<<>>, mk.masked)
        IN  /\ {<<n.path, n.kind>> : n \in before} = {<<n.path, n.kind>> : n \in after}
            /\ Cardinality(before) = Cardinality(after)
            /\ \A n \in before :
                  n.kind = "leaf" =>
                     [n EXCEPT !.leaf =
                         IF \E sub \in SensitiveOf(mk.strategy) :
                               Occurs(sub, Dotted(n.path))
                         THEN MaskOf(mk.strategy) ELSE n.leaf] \in after

\* C19 witness: under a nil strategy the snapshot {db: {db, apikey}} was
\* masked at "db.apikey" only.
C19_Witness ==
    /\ mk.calls > 0
    /\ ~mk.strategy.set
    /\ mk.settings =
          { <<KeyNames[1], MapNode({ <<KeyNames[1], LeafNode("s3cr3t")>>,
                                     <<KeyNames[2], LeafNode("s3cr3t")>> })>> }
    /\ mk.masked =
          { <<KeyNames[1], MapNode({ <<KeyNames[1], LeafNode("s3cr3t")>>,
                                     <<KeyNames[2], LeafNode("******")>> })>> }

\* C20: no GetMaskedConfig call and no request to the config handler changes
\* a value of the configuration store.
C20_StoreUntouched == [][mk'.settings = mk.settings]_vars

\* C20 witness: after as many views as the model takes, the last one served
\* by the handler with the key "apikey" masked, the store still holds the
\* key's value.
C20_Witness ==
    /\ mk.calls = MaxMaskCalls
    /\ mk.status = 200
    /\ <<KeyNames[2], LeafNode("localhost")>> \in mk.settings
    /\ <<KeyNames[2], LeafNode("******")>> \in mk.masked

\* The strategy a view is masked with: the default one for a nil strategy.
StrategyUsed == IF mk.strategy.set THEN mk.strategy ELSE DefaultMaskStrategy

\* C21: masking a masked view again with the same strategy gives the masked
\* view itself.
C21_Idempotent ==
    (mk.calls > 0 /\ mk.status # 405) =>
        maskConfigMap(<<>>, mk.masked, StrategyUsed) = mk.masked

\* C21 witness: a view with a nested leaf masked and a nested leaf kept, which
\* differs from the snapshot, is its own masked view.
C21_Witness ==
    /\ mk.calls > 0
    /\ mk.strategy = DefaultMaskStrategy
    /\ mk.masked # mk.settings
    /\ mk.masked =
          { <<KeyNames[1], MapNode({ <<KeyNames[1], LeafNode("s3cr3t")>>,
                                     <<KeyNames[2], LeafNode("******")>> })>>,
            <<KeyNames[2], LeafNode("******")>> }
    /\ maskConfigMap(<<>>, mk.masked, mk.strategy) = mk.masked

\* The answer of the last request served: 405 and "Method not allowed" with
\* no view taken of the store for a method other than GET; for GET, 200 with
\* the JSON of the store's masked view, or 500 with the encoder's error text.
HandlerAnswer ==
    IF mk.method # "GET"
    THEN /\ mk.status = 405
         /\ mk.body = TextBody("Method not allowed")
         /\ mk.masked = {}
    ELSE \/ /\ mk.status = 200
            /\ mk.body = JSONBody(maskConfigMap(<<>>, mk.settings, StrategyUsed))
         \/ /\ mk.status = 500
            /\ mk.body \in {TextBody(e[1]) : e \in EncodeResults \ {Nil}}

\* C22: each request to the configuration handler is answered, for GET, with
\* 200 and the JSON of the snapshot masked at that request, or with 500 and
\* the error text when the encoding fails; for any other method with 405
\* "Method not allowed", no view being computed and the strategy and the
\* store left alone.
C22_HandlerAnswers ==
    [][mk'.calls # mk.calls =>
          /\ HandlerAnswer'
          /\ mk'.method # "GET" =>
                mk'.strategy = mk.strategy /\ mk'.settings = mk.settings]_vars

\* C22 witness: the last of the requests, a GET under the default strategy,
\* was answered with 200 and the document of the store's view, in which the
\* value of "apikey" is masked.
C22_Witness ==
    /\ mk.calls = MaxMaskCalls
    /\ mk.method = "GET" /\ mk.status = 200
    /\ mk.strategy = DefaultMaskStrategy
    /\ mk.settings = { <<KeyNames[1], LeafNode("localhost")>>,
                       <<KeyNames[2], LeafNode("localhost")>> }
    /\ mk.body = JSONBody({ <<KeyNames[1], LeafNode("localhost")>>,
                            <<KeyNames[2], LeafNode("******")>> })

\* The strategy the viewer is to serve through: the five sensitive words and
\* the mask.
ViewerStrategy ==
    [set |-> TRUE,
     SensitiveKeys |-> << <<"p", "a", "s", "s", "w", "o", "r", "d">>,
                          <<"s", "e", "c", "r", "e", "t">>,
                          <<"k", "e", "y">>,
                          <<"t", "o", "k", "e", "n">>,
                          <<"c", "r", "e", "d", "e", "n", "t", "i", "a", "l">> >>,
     MaskPattern |-> "******"]

ViewerMounts == { i \in 1..Len(ns.mounts) : ns.mounts[i].path = "/internal/config" }

\* C23: the service NewService returns has /internal/config mounted exactly
\* when the options enable the configuration viewer and the store implements
\* MaskedStore, and the handler mounted there is the one the masked store
\* makes for the default strategy (password, secret, key, token, credential;
\* "******"); a call that has not returned a service has mounted nothing.
C23_ViewerMounted ==
    /\ ns.pc = "done" /\ ns.ret.svc =>
          /\ ViewerMounts # {} <=> (ns.opts.EnableConfigViewer /\ ns.deps.masked)
          /\ \A i \in ViewerMounts :
                ns.mounts[i].handler =
                   [from |-> "MaskedStore.GetConfigHandler", strategy |-> ViewerStrategy]
    /\ ~(ns.pc = "done" /\ ns.ret.svc) => ViewerMounts = {}

\* C23 witness: NewService returned a service with both internal endpoints
\* mounted, the viewer second.
C23_Witness ==
    /\ ns.pc = "done" /\ ns.ret.svc
    /\ ns.opts.EnableConfigViewer /\ ns.deps.masked
    /\ Len(ns.mounts) = 2
    /\ ns.mounts[2].path = "/internal/config"
    /\ ns.mounts[2].handler.strategy.MaskPattern = "******"

\* C24: a Shutdown on the service NewService returned, its store still as
\* NewService made it, hands the transport a context that ends no later than
\* the options' shutdown timeout after the call.
C24_OptionsShutdownTimeout ==
    (sd.pc # "idle" /\ ~Get(store, KShutdown).ok) =>
        /\ sd.ctx # NoDeadline
        /\ sd.ctx <= sd.at + ns.opts.Server.ShutdownTimeout

\* C25: every server that is bound while the configuration enables TLS has a
\* TLS configuration, and its minimum version is set, whatever the PreStart
\* hook did to the server.
C25_MinVersionAtBinding ==
    \A v \in 1..Len(servers) :
        (servers[v].listening /\ Get(store, KTLS).v) =>
            /\ servers[v].TLSConfig # NilTLS
            /\ servers[v].TLSConfig.MinVersion # 0

\* C26: with a TLS configuration in the options and no PreStart hook, every
\* server Start creates has that configuration: its minimum version is the
\* supplied one, or TLS 1.2 when the supplied one is zero.
C26_SuppliedTLSConfig ==
    (ns.ret.svc /\ ns.opts.Server.TLSConfig # NilTLS /\ ~preStart) =>
        \A v \in 1..Len(servers) :
            /\ servers[v].TLSConfig # NilTLS
            /\ servers[v].TLSConfig.MinVersion =
                  IF ns.opts.Server.TLSConfig.MinVersion = 0 THEN VersionTLS12
                  ELSE ns.opts.Server.TLSConfig.MinVersion

\* C28: a Start that loaded a configuration with TLS enabled and serves on its
\* own listener serves over TLS.
C28_NoPlainWhenTLSEnabled ==
    \A v \in 1..Len(servers) :
        (servers[v].listening /\ Get(store, KTLS).v) => servers[v].mode = "tls"

\* C27: the tracer provider NewService constructs is asked for the sampling
\* rate the caller wrote, and for 100 percent only when the caller wrote none.
C27_SamplingRateKept ==
    ns.svc.tracer =>
        ns.sampling = IF ns.given.TracingSampleRate = Unset THEN 100
                      ELSE ns.given.TracingSampleRate

\* A key's name contains one of the strategy's sensitive substrings.
SensitiveName(key, strategy) ==
    \E sub \in SensitiveOf(strategy) : Occurs(sub, key)

\* A snapshot with the values under sensitive names left out, in nested maps
\* and in the mappings that lists hold.
RECURSIVE Erase(_, _)
Erase(config, strategy) ==
    { IF e[2].kind = "leaf"
      THEN <<e[1], IF SensitiveName(e[1], strategy) THEN LeafNode("") ELSE e[2]>>
      ELSE <<e[1], [e[2] EXCEPT !.sub = Erase(@, strategy)]>> : e \in config }

\* The snapshots of the viewer's store.
ViewerSnapshots ==
    UNION { { { <<k, f[k]>> : k \in K } : f \in [K -> ViewerValues] } :
            K \in SUBSET ConfigKeys }

\* C29: the view served of a snapshot is the view of every snapshot that
\* differs from it only in values under sensitive names, at any depth and
\* inside the mapping a list holds.
C29_SensitiveValuesHidden ==
    (mk.calls > 0 /\ mk.method = "GET") =>
        \A other \in ViewerSnapshots :
            Erase(other, mk.strategy) = Erase(mk.settings, mk.strategy) =>
                maskConfigMap(<<>>, other, StrategyUsed) = mk.masked

\* C30: a request to the configuration handler only reads the strategy the
\* handler was made with: no step changes it, an empty mask pattern included.
C30_StrategyOnlyRead == [][mk'.strategy = mk.strategy]_vars

====
